---- MODULE Spec2Model ----
(***************************************************************************)
(* Model of the conversation context-assembly pipeline of disha_ai:        *)
(*   - LLMService.count_tokens / truncate_context   (src/llm_service.py)   *)
(*   - ProtocolService.match_protocols / seed_default_protocols            *)
(*   - MemoryService.create_memory / get_relevant_memories /              *)
(*     extract_and_store_memories                    (src/services.py)     *)
(*   - LLMService.create_system_prompt / generate_response /               *)
(*     extract_memories                              (src/llm_service.py)  *)
(*   - ChatService.process_message, MessageService, TypingService          *)
(*                                                   (src/services.py)     *)
(*   - POST /api/chat, send_message                  (src/main.py)         *)
(* Texts are sequences of one-character strings, so that len(), slicing,   *)
(* lower() and the `in` substring test are computed as Python computes     *)
(* them.                                                                   *)
(***************************************************************************)
EXTENDS Integers, Sequences, FiniteSets, TLC

VARIABLES
  tc_messages,     \* the `messages` list handed to truncate_context
  tcall,           \* the last call of truncate_context: arguments and outcome
  protocols,       \* table `protocols`, rows in insertion (id) order
  mcall,           \* the last call of match_protocols: argument, query order, result
  memories,        \* table `memories`: a set of rows
  next_memory_id,  \* the next primary key of table `memories`
  now,             \* the clock read by datetime.utcnow()
  memCall,         \* the last MemoryService call: arguments and returned row
  pcall,           \* the last call of create_system_prompt: arguments and result
  provider,        \* settings.LLM_PROVIDER, with which LLMService() was constructed
  user,            \* the row of table `users` of the user who chats
  messages,        \* table `messages`, rows in insertion (id) order
  typing_indicators,  \* table `typing_indicators`: a set of rows
  turn,            \* the request to POST /api/chat being served, or the last one served
  pager,           \* the last request to GET /api/messages and the walk it belongs to
  workers          \* requests served concurrently, each on a Session of its own

vars == <<tc_messages, tcall, protocols, mcall,
          memories, next_memory_id, now, memCall, pcall,
          provider, user, messages, typing_indicators, turn, pager, workers>>

tcVars  == <<tc_messages, tcall>>
prVars  == <<protocols, mcall>>
memVars == <<memories, next_memory_id, now, memCall>>
pVars   == <<pcall>>
turnVars == <<provider, user, messages, typing_indicators, turn>>
cVars   == <<pager, workers>>

(***************************************************************************)
(* Bounds of the model.                                                    *)
(***************************************************************************)
MaxHistory == 3      \* longest `messages` list handed to truncate_context
MaxSlack == 3        \* widest window of budgets explored around 0 and around the margin
MaxExtraProtocols == 3   \* most rows of table `protocols` that are not seeded
MaxFacts == 3        \* most rows of table `memories`
MaxTime == 1         \* last clock value
MaxExtract == 2      \* longest list returned by the extraction call
MaxLimit == 2        \* largest explicit `limit` passed to get_relevant_memories
MaxPromptFacts == 6  \* longest `memories` list passed to create_system_prompt
MaxPromptProtocols == 4   \* longest `protocols` list passed to create_system_prompt
MaxTurns == 1        \* most requests to POST /api/chat in a run
MaxStored == 4       \* most rows of table `messages` read by GET /api/messages
MaxPageLimit == 2    \* largest small `limit` passed to GET /api/messages
NumWorkers == 2      \* requests served at the same time
MaxRequests == 2     \* most requests a worker serves in a run
MaxPastTurns == 11   \* most turns a user has completed before the run

(***************************************************************************)
(* Program constants.                                                      *)
(***************************************************************************)
MAX_CONTEXT_TOKENS == 8000
MAX_RESPONSE_TOKENS == 1000
SafetyMargin == 100
MatchCap == 3
LongLen == 104       \* length of the long message body used as input

(***************************************************************************)
(* Python helpers.                                                         *)
(***************************************************************************)
Min(a, b) == IF a <= b THEN a ELSE b
Max(a, b) == IF a >= b THEN a ELSE b

\* s[:k], with Python's meaning of a negative k (drop the last -k characters)
PySlicePrefix(s, k) ==
  IF k >= 0 THEN SubSeq(s, 1, Min(k, Len(s)))
            ELSE SubSeq(s, 1, Max(Len(s) + k, 0))

\* int(num / den) for den > 0: truncation toward zero.  The code multiplies by
\* the float len / content_tokens; the exact quotient taken here can differ
\* from the float product by one character when the ratio is not a whole
\* number.
IntTrunc(num, den) ==
  IF num >= 0 THEN num \div den ELSE -((-num) \div den)

\* needle in hay
Contains(hay, needle) ==
  \E i \in 0..(Len(hay) - Len(needle)) :
     SubSeq(hay, i + 1, i + Len(needle)) = needle

\* str.lower() on one character
LowerChar(c) ==
  CASE c = "A" -> "a"
    [] c = "B" -> "b"
    [] c = "C" -> "c"
    [] c = "D" -> "d"
    [] c = "E" -> "e"
    [] c = "F" -> "f"
    [] c = "G" -> "g"
    [] c = "H" -> "h"
    [] c = "I" -> "i"
    [] c = "J" -> "j"
    [] c = "K" -> "k"
    [] c = "L" -> "l"
    [] c = "M" -> "m"
    [] c = "N" -> "n"
    [] c = "O" -> "o"
    [] c = "P" -> "p"
    [] c = "Q" -> "q"
    [] c = "R" -> "r"
    [] c = "S" -> "s"
    [] c = "T" -> "t"
    [] c = "U" -> "u"
    [] c = "V" -> "v"
    [] c = "W" -> "w"
    [] c = "X" -> "x"
    [] c = "Y" -> "y"
    [] c = "Z" -> "z"
    [] OTHER -> c

\* text.lower()
Lower(text) == [i \in 1..Len(text) |-> LowerChar(text[i])]

Rep(c, n) == [i \in 1..n |-> c]

(***************************************************************************)
(* LLMService.count_tokens.  tiktoken is an external library; its encoder  *)
(* is abstracted as: a maximal run of one repeated blank or dot is one     *)
(* token, every other character is a token of its own, and a text that     *)
(* holds a special-token string makes encode() raise, which sends          *)
(* count_tokens to its len(text) // 4 estimate.                            *)
(***************************************************************************)
SpecialToken ==
  <<"<", "|", "e", "n", "d", "o", "f", "t", "e", "x", "t", "|", ">">>

Ellipsis ==
  <<".", ".", ".">>

RunChars == {" ", "."}

EncodeRaises(text) == Contains(text, SpecialToken)

EncodeLen(text) ==
  Cardinality({i \in 1..Len(text) :
                 \/ i = 1
                 \/ text[i] \notin RunChars
                 \/ text[i] # text[i - 1]})

count_tokens(text) ==
  IF EncodeRaises(text) THEN Len(text) \div 4 ELSE EncodeLen(text)

\* sum of count_tokens over the contents of a list of messages
RECURSIVE TotalTokens(_)
TotalTokens(msgs) ==
  IF msgs = <<>> THEN 0
  ELSE count_tokens(msgs[1].content) + TotalTokens(Tail(msgs))

(***************************************************************************)
(* LLMService.truncate_context.                                            *)
(***************************************************************************)
\* max_tokens is Optional[int]: <<>> is None, <<n>> is n
EffectiveMaxTokens(max_tokens) ==
  IF max_tokens = <<>> THEN MAX_CONTEXT_TOKENS ELSE max_tokens[1]

AvailableTokens(system_prompt, max_tokens) ==
  EffectiveMaxTokens(max_tokens) - count_tokens(system_prompt) - MAX_RESPONSE_TOKENS

\* the loop over reversed(messages): i is the index of the message looked at
RECURSIVE WalkBreak(_, _, _, _, _)
WalkBreak(msgs, i, truncated, current_tokens, available_tokens) ==
  IF i = 0 THEN truncated
  ELSE LET msg_tokens == count_tokens(msgs[i].content)
       IN IF current_tokens + msg_tokens <= available_tokens
          THEN WalkBreak(msgs, i - 1, <<msgs[i]>> \o truncated,
                         current_tokens + msg_tokens, available_tokens)
          ELSE truncated

\* the same loop with `continue` where the code has `break`
RECURSIVE WalkContinue(_, _, _, _, _)
WalkContinue(msgs, i, truncated, current_tokens, available_tokens) ==
  IF i = 0 THEN truncated
  ELSE LET msg_tokens == count_tokens(msgs[i].content)
       IN IF current_tokens + msg_tokens <= available_tokens
          THEN WalkContinue(msgs, i - 1, <<msgs[i]>> \o truncated,
                            current_tokens + msg_tokens, available_tokens)
          ELSE WalkContinue(msgs, i - 1, truncated, current_tokens, available_tokens)

AdmitRecentSkipping(msgs, available_tokens) ==
  WalkContinue(msgs, Len(msgs), <<>>, 0, available_tokens)

AdmitRecent(msgs, available_tokens) ==
  WalkBreak(msgs, Len(msgs), <<>>, 0, available_tokens)

Returned(value) == [raised |-> "none", value |-> value]
Raised(exc) == [raised |-> exc, value |-> <<>>]

\* lines 89-102: nothing was admitted and messages is not empty
TruncateLast(msgs, available_tokens) ==
  LET last_msg == msgs[Len(msgs)]
      content == last_msg.content
      max_content_tokens == available_tokens - SafetyMargin
      content_tokens == count_tokens(content)
  IN IF content_tokens > max_content_tokens
     THEN IF content_tokens = 0
          THEN Raised("ZeroDivisionError")
          ELSE LET max_chars == IntTrunc(max_content_tokens * Len(content),
                                         content_tokens)
               IN Returned(<< [last_msg EXCEPT
                                 !.content = PySlicePrefix(content, max_chars)
                                               \o Ellipsis] >>)
     ELSE Returned(<<last_msg>>)

truncate_context(msgs, system_prompt, max_tokens) ==
  LET available_tokens == AvailableTokens(system_prompt, max_tokens)
      truncated == AdmitRecent(msgs, available_tokens)
  IN IF truncated = <<>> /\ msgs # <<>>
     THEN TruncateLast(msgs, available_tokens)
     ELSE Returned(truncated)

\* the caller's list after a call in which last_msg is messages[-1] itself
\* and not a copy: the cut content is written into the caller's message
InputAfterAliased(msgs, system_prompt, max_tokens) ==
  LET out == truncate_context(msgs, system_prompt, max_tokens)
  IN IF AdmitRecent(msgs, AvailableTokens(system_prompt, max_tokens)) = <<>>
        /\ msgs # <<>> /\ out.raised = "none"
     THEN [msgs EXCEPT ![Len(msgs)] = out.value[1]]
     ELSE msgs

\* the caller's list after the call: the loop reads `messages`, line 90
\* copies the last message and line 100 assigns to the copy, so no statement
\* writes to the list or to one of its messages
InputAfter(msgs, system_prompt, max_tokens) == msgs

(***************************************************************************)
(* Inputs of truncate_context.                                             *)
(***************************************************************************)
Roles == {"user", "assistant"}

TextAB == <<"a", "b">>
TextLong == Rep("a", LongLen)

Contents == {<<>>, TextAB, SpecialToken, TextLong}

SystemPrompts == {<<>>, <<"s">>}

Budgets ==
  {<<>>} \cup
  {<<MAX_RESPONSE_TOKENS + d>> :
      d \in (-1..MaxSlack) \cup (SafetyMargin..(SafetyMargin + MaxSlack))}

NoTruncateCall ==
  [called |-> FALSE, messages |-> <<>>, system_prompt |-> <<>>,
   max_tokens |-> <<>>, raised |-> "none", value |-> <<>>, again |-> <<>>]

\* the caller builds the list it will pass: one more message (a new list,
\* so the record of the last call is cleared)
AppendMessage(role, content) ==
  /\ Len(tc_messages) < MaxHistory
  /\ tc_messages' = Append(tc_messages, [role |-> role, content |-> content])
  /\ tcall' = NoTruncateCall
  /\ UNCHANGED <<prVars, memVars, pVars, turnVars, cVars>>

TruncateContext(system_prompt, max_tokens) ==
  LET out == truncate_context(tc_messages, system_prompt, max_tokens)
  IN /\ ~tcall.called
     /\ tcall' = [called |-> TRUE, messages |-> tc_messages,
                  system_prompt |-> system_prompt, max_tokens |-> max_tokens,
                  raised |-> out.raised, value |-> out.value, again |-> <<>>]
     /\ tc_messages' = InputAfter(tc_messages, system_prompt, max_tokens)
     /\ UNCHANGED <<prVars, memVars, pVars, turnVars, cVars>>

\* the caller calls once more with the list, the instruction text and the
\* limit of the call before
TruncateAgain ==
  LET out == truncate_context(tc_messages, tcall.system_prompt, tcall.max_tokens)
  IN /\ tcall.called
     /\ tcall.again = <<>>
     /\ tcall' = [tcall EXCEPT !.again = <<[raised |-> out.raised, value |-> out.value]>>]
     /\ tc_messages' = InputAfter(tc_messages, tcall.system_prompt, tcall.max_tokens)
     /\ UNCHANGED <<prVars, memVars, pVars, turnVars, cVars>>

(***************************************************************************)
(* Table `protocols` and ProtocolService.                                  *)
(***************************************************************************)
\* a nullable JSON list column: NULL, or a list of texts
Null == [null |-> TRUE, list |-> <<>>]
JsonList(list) == [null |-> FALSE, list |-> list]

\* `column or []`
OrEmpty(column) == IF column.null THEN <<>> ELSE column.list

\* the list of seed_default_protocols (the templates abridged to their first line)
default_protocols ==
  <<
    [name |-> "Fever Management", category |-> "symptom",
     keywords |-> JsonList(<<
          <<"f", "e", "v", "e", "r">>,
          <<"t", "e", "m", "p", "e", "r", "a", "t", "u", "r", "e">>,
          <<"h", "o", "t">>,
          <<"b", "u", "r", "n", "i", "n", "g", " ", "u", "p">> >>),
     trigger_phrases |-> JsonList(<<
          <<"h", "a", "v", "e", " ", "f", "e", "v", "e", "r">>,
          <<"r", "u", "n", "n", "i", "n", "g", " ", "f", "e", "v", "e", "r">> >>),
     response_template |-> "For fever management: ...",
     priority |-> 8],
    [name |-> "Stomach Ache", category |-> "symptom",
     keywords |-> JsonList(<<
          <<"s", "t", "o", "m", "a", "c", "h">>,
          <<"t", "u", "m", "m", "y">>,
          <<"a", "b", "d", "o", "m", "e", "n">>,
          <<"b", "e", "l", "l", "y">>,
          <<"p", "a", "i", "n">>,
          <<"a", "c", "h", "e">> >>),
     trigger_phrases |-> JsonList(<<
          <<"s", "t", "o", "m", "a", "c", "h", " ", "p", "a", "i", "n">>,
          <<"s", "t", "o", "m", "a", "c", "h", " ", "a", "c", "h", "e">>,
          <<"t", "u", "m", "m", "y", " ", "a", "c", "h", "e">> >>),
     response_template |-> "For stomach discomfort: ...",
     priority |-> 7],
    [name |-> "Headache", category |-> "symptom",
     keywords |-> JsonList(<<
          <<"h", "e", "a", "d", "a", "c", "h", "e">>,
          <<"h", "e", "a", "d", " ", "p", "a", "i", "n">>,
          <<"m", "i", "g", "r", "a", "i", "n", "e">> >>),
     trigger_phrases |-> JsonList(<<
          <<"h", "a", "v", "e", " ", "a", " ", "h", "e", "a", "d", "a", "c", "h", "e">>,
          <<"h", "e", "a", "d", " ", "i", "s", " ", "p", "a", "i", "n", "i", "n", "g">> >>),
     response_template |-> "For headache relief: ...",
     priority |-> 6],
    [name |-> "Emergency Symptoms", category |-> "emergency",
     keywords |-> JsonList(<<
          <<"c", "h", "e", "s", "t", " ", "p", "a", "i", "n">>,
          <<"d", "i", "f", "f", "i", "c", "u", "l", "t", "y", " ", "b", "r", "e", "a", "t", "h", "i", "n", "g">>,
          <<"u", "n", "c", "o", "n", "s", "c", "i", "o", "u", "s">>,
          <<"b", "l", "e", "e", "d", "i", "n", "g">>,
          <<"s", "e", "v", "e", "r", "e">> >>),
     trigger_phrases |-> JsonList(<<
          <<"c", "a", "n", "'", "t", " ", "b", "r", "e", "a", "t", "h", "e">>,
          <<"c", "h", "e", "s", "t", " ", "p", "a", "i", "n">>,
          <<"s", "e", "v", "e", "r", "e", " ", "b", "l", "e", "e", "d", "i", "n", "g">> >>),
     response_template |-> "This sounds like a medical emergency. ...",
     priority |-> 10],
    [name |-> "Refund Policy", category |-> "policy",
     keywords |-> JsonList(<<
          <<"r", "e", "f", "u", "n", "d">>,
          <<"m", "o", "n", "e", "y", " ", "b", "a", "c", "k">>,
          <<"c", "a", "n", "c", "e", "l">>,
          <<"s", "u", "b", "s", "c", "r", "i", "p", "t", "i", "o", "n">> >>),
     trigger_phrases |-> JsonList(<<
          <<"w", "a", "n", "t", " ", "r", "e", "f", "u", "n", "d">>,
          <<"c", "a", "n", "c", "e", "l", " ", "s", "u", "b", "s", "c", "r", "i", "p", "t", "i", "o", "n">> >>),
     response_template |-> "Our refund policy: ...",
     priority |-> 5]
  >>

DefaultNames == {default_protocols[i].name : i \in DOMAIN default_protocols}

\* rows that are not seeded: inserted into the table by an administrator
ExtraProtocols ==
  { [name |-> "Hydration", category |-> "lifestyle",
     keywords |-> JsonList(<< <<"w", "a", "t", "e", "r">> >>),
     trigger_phrases |-> Null,
     response_template |-> "...",
     priority |-> 8, is_active |-> TRUE],
    [name |-> "Sleep", category |-> "lifestyle",
     keywords |-> JsonList(<< <<"s", "l", "e", "e", "p">> >>),
     trigger_phrases |-> JsonList(<<>>),
     response_template |-> "...",
     priority |-> 8, is_active |-> TRUE],
    [name |-> "Retired", category |-> "symptom",
     keywords |-> JsonList(<< <<"f", "e", "v", "e", "r">> >>),
     trigger_phrases |-> Null,
     response_template |-> "...",
     priority |-> 10, is_active |-> FALSE],
    [name |-> "Cough", category |-> "symptom",
     keywords |-> JsonList(<< <<"C", "o", "u", "g", "h">> >>),
     trigger_phrases |-> JsonList(<< <<"b", "a", "d", " ", "c", "o", "u", "g", "h">> >>),
     response_template |-> "...",
     priority |-> 3, is_active |-> TRUE] }

MsgFeverHeadache ==
  <<"I", " ", "h", "a", "v", "e", " ", "a", " ", "f", "e", "v", "e", "r", " ", "a", "n", "d", " ", "h", "e", "a", "d", "a", "c", "h", "e">>

MsgPhrased ==
  <<"I", " ", "h", "a", "v", "e", " ", "f", "e", "v", "e", "r", " ", "a", "n", "d", " ", "h", "a", "v", "e", " ", "a", " ", "h", "e", "a", "d", "a", "c", "h", "e">>

MsgMany ==
  <<"N", "o", " ", "W", "A", "T", "E", "R", ",", " ", "n", "o", " ", "s", "l", "e", "e", "p", ",", " ", "b", "a", "d", " ", "c", "o", "u", "g", "h", ",", " ", "r", "u", "n", "n", "i", "n", "g", " ", "f", "e", "v", "e", "r", " ", "a", "n", "d", " ", "s", "t", "o", "m", "a", "c", "h", " ", "a", "c", "h", "e">>

MsgHello ==
  <<"h", "e", "l", "l", "o">>

Messages == {MsgFeverHeadache, MsgPhrased, MsgMany, MsgHello}

TableNames(table) == {table[i].name : i \in DOMAIN table}

\* Protocol(**protocol_data): the id is the next primary key, is_active defaults to True
NewProtocolRow(table, data, is_active) ==
  [id |-> Len(table) + 1, name |-> data.name, category |-> data.category,
   keywords |-> data.keywords, trigger_phrases |-> data.trigger_phrases,
   response_template |-> data.response_template,
   priority |-> data.priority, is_active |-> is_active]

\* the loop of seed_default_protocols from entry i on
RECURSIVE SeedFrom(_, _)
SeedFrom(table, i) ==
  IF i > Len(default_protocols) THEN table
  ELSE LET protocol_data == default_protocols[i]
       IN IF protocol_data.name \in TableNames(table)
          THEN SeedFrom(table, i + 1)
          ELSE SeedFrom(Append(table, NewProtocolRow(table, protocol_data, TRUE)),
                        i + 1)

seed_default_protocols(table) == SeedFrom(table, 1)

\* any(kw.lower() in user_message_lower for kw in list)
AnyIn(list, user_message_lower) ==
  \E i \in DOMAIN list : Contains(user_message_lower, Lower(list[i]))

\* the rule with the trigger phrases left unchecked
KeywordOnlyMatches(protocol, user_message_lower) ==
  AnyIn(OrEmpty(protocol.keywords), user_message_lower)

\* lines 286-304: the test that appends a protocol to `matched`
ProtocolMatches(protocol, user_message_lower) ==
  LET keywords == OrEmpty(protocol.keywords)
      trigger_phrases == OrEmpty(protocol.trigger_phrases)
  IN /\ AnyIn(keywords, user_message_lower)
     /\ IF trigger_phrases # <<>>
        THEN AnyIn(trigger_phrases, user_message_lower)
        ELSE TRUE

Summary(protocol) ==
  [name |-> protocol.name, category |-> protocol.category,
   response_template |-> protocol.response_template,
   priority |-> protocol.priority]

\* the result without the cap
AllOf(matched) == matched

\* matched[:3]
TopMatches(matched) == SubSeq(matched, 1, Min(MatchCap, Len(matched)))

\* every order in which ORDER BY priority DESC may return the rows of a set:
\* the order among rows of equal priority is not fixed by the query
RECURSIVE QueryOrders(_)
QueryOrders(rows) ==
  IF rows = {} THEN {<<>>}
  ELSE LET top == {r \in rows : \A o \in rows : o.priority <= r.priority}
       IN UNION {{<<r>> \o rest : rest \in QueryOrders(rows \ {r})} : r \in top}

\* lines 274-279: the active protocols, as the query may return them
ActiveProtocolQuery(table) ==
  QueryOrders({table[i] : i \in {j \in DOMAIN table : table[j].is_active}})

\* lines 281-306, given the rows the query returned
match_protocols(rows, user_message) ==
  LET user_message_lower == Lower(user_message)
      hits == SelectSeq(rows, LAMBDA p : ProtocolMatches(p, user_message_lower))
      matched == [i \in DOMAIN hits |-> Summary(hits[i])]
  IN TopMatches(matched)

NoMatchCall ==
  [called |-> FALSE, message |-> <<>>, order |-> <<>>, result |-> <<>>]

\* POST /api/protocols/seed, init_db (the record of the last match is
\* cleared: it describes a call made on the table as it is)
SeedDefaultProtocols ==
  /\ protocols' = seed_default_protocols(protocols)
  /\ mcall' = NoMatchCall
  /\ UNCHANGED <<tcVars, memVars, pVars, turnVars, cVars>>

InsertProtocol(data) ==
  /\ Cardinality(TableNames(protocols) \ DefaultNames) < MaxExtraProtocols
  /\ data.name \notin TableNames(protocols)
  /\ protocols' = Append(protocols, NewProtocolRow(protocols, data, data.is_active))
  /\ mcall' = NoMatchCall
  /\ UNCHANGED <<tcVars, memVars, pVars, turnVars, cVars>>

MatchProtocols(user_message) ==
  /\ ~mcall.called
  /\ \E rows \in ActiveProtocolQuery(protocols) :
        mcall' = [called |-> TRUE, message |-> user_message,
                  order |-> [i \in DOMAIN rows |-> rows[i].id],
                  result |-> match_protocols(rows, user_message)]
  /\ UNCHANGED <<protocols, tcVars, memVars, pVars, turnVars, cVars>>

(***************************************************************************)
(* Table `memories` and MemoryService.                                     *)
(***************************************************************************)
\* the rows a lookup by (user_id, category, key) finds
ExistingMemories(table, user_id, category, key) ==
  {m \in table : m.user_id = user_id /\ m.category = category /\ m.key = key}

\* Memory(...) followed by add, commit and refresh: one new row.  Both
\* timestamps are server defaults (func.now()), read here from the same clock
\* as datetime.utcnow().
InsertMemory(table, next_id, t, user_id, category, key, value, importance) ==
  LET memory == [id |-> next_id, user_id |-> user_id, category |-> category,
                 key |-> key, value |-> value, importance |-> importance,
                 last_accessed_at |-> t, created_at |-> t]
  IN [memories |-> table \cup {memory}, next_id |-> next_id + 1, ret |-> memory]

\* lines 187-192: the row found is overwritten in place
UpdateMemory(table, next_id, t, existing, value, importance) ==
  LET updated == [existing EXCEPT !.value = value, !.importance = importance,
                                  !.last_accessed_at = t]
  IN [memories |-> (table \ {existing}) \cup {updated}, next_id |-> next_id,
      ret |-> updated]

\* create_memory without the lookup: every call inserts
create_memory_always_insert(table, next_id, t, user_id, category, key, value, importance) ==
  {InsertMemory(table, next_id, t, user_id, category, key, value, importance)}

\* create_memory that finds the row and returns it without overwriting it
create_memory_keep_old(table, next_id, t, user_id, category, key, value, importance) ==
  LET found == ExistingMemories(table, user_id, category, key)
  IN IF found # {}
     THEN {[memories |-> table, next_id |-> next_id, ret |-> existing] :
             existing \in found}
     ELSE {InsertMemory(table, next_id, t, user_id, category, key, value, importance)}

\* MemoryService.create_memory at clock value t: the outcomes it can have
\* (.first() of a query without ORDER BY returns any of the rows found)
create_memory(table, next_id, t, user_id, category, key, value, importance) ==
  LET found == ExistingMemories(table, user_id, category, key)
  IN IF found # {}
     THEN {UpdateMemory(table, next_id, t, existing, value, importance) :
             existing \in found}
     ELSE {InsertMemory(table, next_id, t, user_id, category, key, value, importance)}

\* mem_data.get(field, default)
Get(mem_data, field, default) ==
  IF field \in DOMAIN mem_data THEN mem_data[field] ELSE default

\* the loop of extract_and_store_memories over the extracted list
RECURSIVE StoreAll(_, _, _, _, _)
StoreAll(table, next_id, t, user_id, extracted) ==
  IF extracted = <<>> THEN {[memories |-> table, next_id |-> next_id]}
  ELSE LET mem_data == extracted[1]
       IN UNION {StoreAll(o.memories, o.next_id, t, user_id, Tail(extracted)) :
                   o \in create_memory(table, next_id, t, user_id,
                                       Get(mem_data, "category", "general"),
                                       Get(mem_data, "key", "info"),
                                       Get(mem_data, "value", ""),
                                       Get(mem_data, "importance", 1))}

\* (user_id, category, key) of the requests made to POST /api/memories
ApiTargets ==
  {<<1, "health_goal", "primary_goal">>, <<1, "general", "info">>,
   <<2, "health_goal", "primary_goal">>}

\* the users whose turns reach memory extraction
ExtractUsers == {1}
\* (value, importance) pairs of those requests
ApiFacts == {<<"lose weight", 3>>, <<"lose 5kg", 4>>}

\* entries of the list the extraction call may return; a field may be missing
ExtractedItems ==
  { [category |-> "health_goal", key |-> "primary_goal",
     value |-> "lose 5kg", importance |-> 4],
    [value |-> "lose weight"] }

RECURSIVE SeqsUpTo(_, _)
SeqsUpTo(S, n) ==
  IF n = 0 THEN {<<>>}
  ELSE LET shorter == SeqsUpTo(S, n - 1)
       IN shorter \cup {Append(s, x) : s \in shorter, x \in S}

NoArgs == [user_id |-> 0, category |-> "", key |-> "", value |-> "", importance |-> 0]
NoRow == [id |-> 0, user_id |-> 0, category |-> "", key |-> "", value |-> "",
          importance |-> 0, last_accessed_at |-> 0, created_at |-> 0]
NoMemoryCall ==
  [op |-> "none", args |-> NoArgs, ret |-> NoRow, repeat |-> FALSE,
   limit |-> 0, selected |-> <<>>]

\* datetime.utcnow() returns a later value
Tick ==
  /\ now < MaxTime
  /\ now' = now + 1
  /\ UNCHANGED <<memories, next_memory_id, memCall, tcVars, prVars, pVars, turnVars, cVars>>

\* POST /api/memories -> MemoryService.create_memory
CreateMemory(user_id, category, key, value, importance) ==
  LET args == [user_id |-> user_id, category |-> category, key |-> key,
               value |-> value, importance |-> importance]
  IN \E o \in create_memory(memories, next_memory_id, now,
                            user_id, category, key, value, importance) :
        /\ Cardinality(o.memories) <= MaxFacts
        /\ memories' = o.memories
        /\ next_memory_id' = o.next_id
        /\ memCall' = [op |-> "create_memory", args |-> args, ret |-> o.ret,
                       repeat |-> (memCall.op = "create_memory" /\ memCall.args = args),
                       limit |-> 0, selected |-> <<>>]
        /\ UNCHANGED <<now, tcVars, prVars, pVars, turnVars, cVars>>

\* MemoryService.extract_and_store_memories, the extraction call returning `extracted`
ExtractAndStoreMemories(user_id, extracted) ==
  \E o \in StoreAll(memories, next_memory_id, now, user_id, extracted) :
     /\ Cardinality(o.memories) <= MaxFacts
     /\ memories' = o.memories
     /\ next_memory_id' = o.next_id
     /\ memCall' = [op |-> "extract_and_store_memories",
                    args |-> [NoArgs EXCEPT !.user_id = user_id],
                    ret |-> NoRow, repeat |-> FALSE,
                    limit |-> 0, selected |-> <<>>]
     /\ UNCHANGED <<now, tcVars, prVars, pVars, turnVars, cVars>>

\* MemoryCreate.importance: Field(default=1, ge=1, le=5)
MinImportance == 1
MaxImportance == 5
MemoryCreateValid(importance) ==
  MinImportance <= importance /\ importance <= MaxImportance

\* importances sent to POST /api/memories, inside and outside the range
ApiImportances ==
  {MinImportance - 1, MinImportance, MaxImportance, MaxImportance + 1}

\* entries of the list the extraction call may return: the entries of
\* ExtractedItems, and one whose importance is not in the range the prompt
\* asks for (the reply is parsed with json.loads and stored as it is)
ReplyItems ==
  ExtractedItems \cup
  { [category |-> "concern", key |-> "chest pain",
     value |-> "since monday", importance |-> 10] }

\* POST /api/memories: a body that MemoryCreate rejects is answered 422 and
\* create_memory is not called
PostMemory(user_id, category, key, value, importance) ==
  IF MemoryCreateValid(importance)
  THEN CreateMemory(user_id, category, key, value, importance)
  ELSE /\ memCall' = [NoMemoryCall EXCEPT
                       !.op = "rejected",
                       !.args = [user_id |-> user_id, category |-> category,
                                 key |-> key, value |-> value,
                                 importance |-> importance]]
       /\ UNCHANGED <<memories, next_memory_id, now, tcVars, prVars, pVars,
                      turnVars, cVars>>

\* the rows of a user ordered by importance alone
RECURSIVE ImportanceOrders(_)
ImportanceOrders(rows) ==
  IF rows = {} THEN {<<>>}
  ELSE LET top == {r \in rows : \A o \in rows : o.importance <= r.importance}
       IN UNION {{<<r>> \o rest : rest \in ImportanceOrders(rows \ {r})} : r \in top}

\* the rows of a user, in every order that ORDER BY importance DESC,
\* last_accessed_at DESC may return them: rows equal in both columns come in
\* any order
RECURSIVE RankOrders(_)
RankOrders(rows) ==
  IF rows = {} THEN {<<>>}
  ELSE LET Before(a, b) == \/ a.importance > b.importance
                           \/ /\ a.importance = b.importance
                              /\ a.last_accessed_at > b.last_accessed_at
           top == {r \in rows : \A o \in rows : ~Before(o, r)}
       IN UNION {{<<r>> \o rest : rest \in RankOrders(rows \ {r})} : r \in top}

\* .limit(limit).all()
LimitRows(ordered, limit) == SubSeq(ordered, 1, Min(limit, Len(ordered)))

\* the loop touching every row of the table
TouchEvery(table, selected, t) ==
  {[m EXCEPT !.last_accessed_at = t] : m \in table}

\* lines 224-226: each row read gets last_accessed_at = datetime.utcnow()
\* (the calls of one loop read the same clock value here); commit
TouchSelected(table, selected, t) ==
  LET ids == {selected[i].id : i \in DOMAIN selected}
  IN {IF m.id \in ids THEN [m EXCEPT !.last_accessed_at = t] ELSE m : m \in table}

\* lines 228-236: what the caller receives for a row
MemoryDict(m) ==
  [category |-> m.category, key |-> m.key, value |-> m.value,
   importance |-> m.importance]

\* MemoryService.get_relevant_memories at clock value t: the outcomes it can
\* have, one for each order the query may return
get_relevant_memories(table, t, user_id, limit) ==
  {LET selected == LimitRows(ordered, limit)
   IN [memories |-> TouchSelected(table, selected, t),
       selected |-> selected,
       ret |-> [i \in DOMAIN selected |-> MemoryDict(selected[i])]] :
     ordered \in RankOrders({m \in table : m.user_id = user_id})}

\* the users whose memories are read
ReadUsers == {1, 2}

\* the default of the parameter `limit`
DefaultLimit == 10

\* values passed for `limit`
Limits == (0..MaxLimit) \cup {DefaultLimit}

\* a caller of MemoryService.get_relevant_memories (the rows selected are
\* recorded as they were read, before the loop changed them)
GetRelevantMemories(user_id, limit) ==
  \E o \in get_relevant_memories(memories, now, user_id, limit) :
     /\ memories' = o.memories
     /\ memCall' = [op |-> "get_relevant_memories",
                    args |-> [NoArgs EXCEPT !.user_id = user_id],
                    ret |-> NoRow, repeat |-> FALSE,
                    limit |-> limit, selected |-> o.selected]
     /\ UNCHANGED <<next_memory_id, now, tcVars, prVars, pVars, turnVars, cVars>>

(***************************************************************************)
(* LLMService.create_system_prompt.  The instruction text is kept as the   *)
(* sequence of the pieces it is put together from: a fixed phrase or an    *)
(* interpolated value is one element, and so is each "\n" of the join.     *)
(***************************************************************************)
\* an Optional value: None is <<>>, a value v is <<v>>
None == <<>>
Some(v) == <<v>>

\* memories[:5] and protocols[:3]
PromptFactCap == 5
PromptProtocolCap == 3

\* "\n".join(parts), each part a sequence of pieces
RECURSIVE JoinLines(_)
JoinLines(parts) ==
  IF parts = <<>> THEN <<>>
  ELSE IF Len(parts) = 1 THEN parts[1]
  ELSE parts[1] \o <<"\n">> \o JoinLines(Tail(parts))

\* ", ".join(list)
RECURSIVE JoinComma(_)
JoinComma(list) ==
  IF list = <<>> THEN <<>>
  ELSE IF Len(list) = 1 THEN <<list[1]>>
  ELSE <<list[1], ", ">> \o JoinComma(Tail(list))

\* str(n) of a non-negative integer
RECURSIVE IntText(_)
IntText(n) ==
  LET digits == <<"0", "1", "2", "3", "4", "5", "6", "7", "8", "9">>
  IN IF n < 10 THEN <<digits[n + 1]>>
     ELSE IntText(n \div 10) \o <<digits[(n % 10) + 1]>>

\* lines 116-133: the onboarding script
OnboardingPrompt ==
  JoinLines(<<
     <<"You are Disha, India's first AI health coach. You're having your first conversation with a new user.">>,
     <<>>,
     <<"Your goal is to:">>,
     <<"1. Welcome them warmly and introduce yourself naturally (don't sound robotic)">>,
     <<"2. Understand their health goals and current situation">>,
     <<"3. Gather basic information: age, any medical conditions, current medications, allergies">>,
     <<"4. Ask about their lifestyle: sleep, exercise, diet, stress levels">>,
     <<"5. Be empathetic and conversational - you're building a relationship, not conducting an interrogation">>,
     <<>>,
     <<"Important:">>,
     <<"- Ask ONE question at a time, keep it conversational">>,
     <<"- Show genuine interest in their responses">>,
     <<"- Be supportive and non-judgmental">>,
     <<"- Remember everything they tell you for future conversations">>,
     <<"- Sound like a caring friend, not a clinical chatbot">>,
     <<"- Use simple language, avoid medical jargon unless necessary">>,
     <<>>,
     <<"Keep your responses concise and natural. Think WhatsApp chat, not medical consultation.">> >>)

\* lines 136-145
PersonaParts ==
  <<
     <<"You are Disha, India's first AI health coach. You communicate like a caring friend on WhatsApp.">>,
     <<"\nYour personality:">>,
     <<"- Warm, empathetic, and supportive">>,
     <<"- Use simple language, avoid medical jargon">>,
     <<"- Keep responses concise (2-3 sentences usually)">>,
     <<"- Be conversational, not robotic or clinical">>,
     <<"- Show you remember past conversations">>,
     <<"- Ask follow-up questions when appropriate">> >>

\* lines 176-181
GuidelineParts ==
  <<
     <<"\n\nImportant Guidelines:">>,
     <<"- For medical emergencies, always advise immediate medical attention">>,
     <<"- You're a health coach, not a doctor - don't diagnose or prescribe">>,
     <<"- Use the protocols above when relevant">>,
     <<"- Be encouraging about healthy habits">>,
     <<"- Keep responses short and WhatsApp-friendly">> >>

\* user_profile.get(field), a missing key giving None
ProfileGet(user_profile, field) ==
  IF field \in DOMAIN user_profile THEN user_profile[field] ELSE None

\* the truth value Python gives to an optional text, an optional integer and a list
TruthyText(value) == value # None /\ value[1] # ""
TruthyInt(value) == value # None /\ value[1] # 0
TruthyList(value) == value # None /\ value[1] # <<>>

\* lines 148-161
ProfileParts(user_profile) ==
  IF DOMAIN user_profile = {} THEN <<>>
  ELSE LET full_name == ProfileGet(user_profile, "full_name")
           age == ProfileGet(user_profile, "age")
           gender == ProfileGet(user_profile, "gender")
           medical_conditions == ProfileGet(user_profile, "medical_conditions")
           medications == ProfileGet(user_profile, "medications")
           allergies == ProfileGet(user_profile, "allergies")
       IN <<<<"\n\nUser Profile:">>>>
          \o (IF TruthyText(full_name) THEN <<<<"- Name: ", full_name[1]>>>> ELSE <<>>)
          \o (IF TruthyInt(age) THEN <<<<"- Age: ">> \o IntText(age[1])>> ELSE <<>>)
          \o (IF TruthyText(gender) THEN <<<<"- Gender: ", gender[1]>>>> ELSE <<>>)
          \o (IF TruthyList(medical_conditions)
                THEN <<<<"- Medical Conditions: ">> \o JoinComma(medical_conditions[1])>>
                ELSE <<>>)
          \o (IF TruthyList(medications)
                THEN <<<<"- Medications: ">> \o JoinComma(medications[1])>>
                ELSE <<>>)
          \o (IF TruthyList(allergies)
                THEN <<<<"- Allergies: ">> \o JoinComma(allergies[1])>>
                ELSE <<>>)

\* memories[:cap]
ListedMemories(memories_, cap) == PySlicePrefix(memories_, cap)

\* lines 164-167
MemoryParts(memories_) ==
  IF memories_ = <<>> THEN <<>>
  ELSE LET listed == ListedMemories(memories_, PromptFactCap)
       IN <<<<"\n\nRelevant Context from Past Conversations:">>>>
          \o [i \in DOMAIN listed |-> <<"- ", listed[i].key, ": ", listed[i].value>>]

\* lines 170-174: two parts for each protocol
RECURSIVE ProtocolLines(_)
ProtocolLines(listed) ==
  IF listed = <<>> THEN <<>>
  ELSE << <<"\n", listed[1].name, ":">>, <<listed[1].response_template>> >>
       \o ProtocolLines(Tail(listed))

ProtocolParts(protocols_) ==
  IF protocols_ = <<>> THEN <<>>
  ELSE <<<<"\n\nRelevant Medical Protocols:">>>>
       \o ProtocolLines(PySlicePrefix(protocols_, PromptProtocolCap))

\* lines 135-181: prompt_parts when the function returns
prompt_parts(user_profile, memories_, protocols_) ==
  PersonaParts \o ProfileParts(user_profile) \o MemoryParts(memories_)
     \o ProtocolParts(protocols_) \o GuidelineParts

\* LLMService.create_system_prompt
create_system_prompt(user_profile, memories_, protocols_, is_onboarding) ==
  IF is_onboarding THEN OnboardingPrompt
  ELSE JoinLines(prompt_parts(user_profile, memories_, protocols_))

\* the dictionary of UserService.get_user_profile (lists: `column or []`)
Profile(full_name, age, gender, medical_conditions, medications, allergies) ==
  [full_name |-> full_name, age |-> age, gender |-> gender,
   weight |-> None, height |-> None,
   medical_conditions |-> Some(medical_conditions),
   medications |-> Some(medications), allergies |-> Some(allergies)]

\* a dictionary without keys
EmptyProfile == [field \in {} |-> None]

\* profiles passed to create_system_prompt: age is an integer from 0 to 150
PromptProfiles ==
  {EmptyProfile} \cup
  {Profile(full_name, age, gender, medical_conditions, medications, allergies) :
     full_name \in {None, Some("Asha")},
     age \in {None, Some(0), Some(30)},
     gender \in {None, Some("female")},
     medical_conditions \in {<<>>, <<"asthma", "diabetes">>},
     medications \in {<<>>, <<"inhaler">>},
     allergies \in {<<>>, <<"dust">>}}

\* memory dictionaries as MemoryService.get_relevant_memories returns them
PromptFacts ==
  << [category |-> "health_goal", key |-> "primary_goal", value |-> "lose 5kg", importance |-> 5],
     [category |-> "lifestyle", key |-> "sleep", value |-> "6 hours", importance |-> 4],
     [category |-> "lifestyle", key |-> "diet", value |-> "vegetarian", importance |-> 3],
     [category |-> "lifestyle", key |-> "exercise", value |-> "walks daily", importance |-> 3],
     [category |-> "concern", key |-> "stress", value |-> "work", importance |-> 2],
     [category |-> "preference", key |-> "language", value |-> "Hindi", importance |-> 2],
     [category |-> "medical_history", key |-> "surgery", value |-> "none", importance |-> 1],
     [category |-> "general", key |-> "info", value |-> "", importance |-> 1] >>

PromptMemories ==
  {SubSeq(PromptFacts, 1, n) : n \in 0..Min(MaxPromptFacts, Len(PromptFacts))}

\* protocol dictionaries as ProtocolService.match_protocols builds them
PromptProtocols ==
  {[i \in 1..n |-> Summary(default_protocols[i])] :
     n \in 0..Min(MaxPromptProtocols, Len(default_protocols))}

NoPromptCall ==
  [called |-> FALSE, user_profile |-> EmptyProfile, memories |-> <<>>,
   protocols |-> <<>>, is_onboarding |-> FALSE, value |-> <<>>]

\* a call of LLMService.create_system_prompt
CreateSystemPrompt(user_profile, memories_, protocols_, is_onboarding) ==
  /\ ~pcall.called
  /\ pcall' = [called |-> TRUE, user_profile |-> user_profile,
               memories |-> memories_, protocols |-> protocols_,
               is_onboarding |-> is_onboarding,
               value |-> create_system_prompt(user_profile, memories_,
                                              protocols_, is_onboarding)]
  /\ UNCHANGED <<tcVars, prVars, memVars, turnVars, cVars>>

(***************************************************************************)
(* Tables `messages` and `typing_indicators`, MessageService,              *)
(* TypingService and the replies of LLMService.generate_response.          *)
(***************************************************************************)
\* settings.LLM_PROVIDER values with which LLMService() is constructed
Providers == {"openai", "anthropic", "demo"}

\* self.model
ModelOf(provider_) ==
  CASE provider_ = "openai" -> "gpt-4o-mini"
    [] provider_ = "anthropic" -> "claude-3-5-sonnet-20241022"
    [] provider_ = "demo" -> "demo-mock"

\* the window of get_recent_messages in process_message
HistoryLimit == 20

\* `if len(message_history) % 5 == 0`
ExtractEvery == 5

\* the user of the turns
TurnUser == 1

\* message texts sent to POST /api/chat
MsgHi == <<"H", "i">>
MsgFeverThanks == <<"I", " ", "h", "a", "v", "e", " ", "f", "e", "v", "e", "r", "?", " ", "T", "h", "a", "n", "k", "s">>
MsgOk == <<"o", "k">>
TurnTexts == {MsgHi, MsgFeverThanks, MsgOk}

\* the word lists of _generate_demo_response, in the order of its branches
FeverWords == <<<<"f", "e", "v", "e", "r">>, <<"t", "e", "m", "p", "e", "r", "a", "t", "u", "r", "e">>, <<"h", "o", "t">>>>
HeadacheWords == <<<<"h", "e", "a", "d", "a", "c", "h", "e">>, <<"h", "e", "a", "d", " ", "p", "a", "i", "n">>, <<"m", "i", "g", "r", "a", "i", "n", "e">>>>
StomachWords == <<<<"s", "t", "o", "m", "a", "c", "h">>, <<"t", "u", "m", "m", "y">>, <<"a", "b", "d", "o", "m", "e", "n">>>>
GreetingWords == <<<<"h", "i">>, <<"h", "e", "l", "l", "o">>, <<"h", "e", "y">>>>
ThanksWords == <<<<"t", "h", "a", "n", "k">>, <<"t", "h", "a", "n", "k", "s">>>>

\* the replies of _generate_demo_response, abridged to their first words
ReplyNoHistory == <<"H", "i", "!", " ", "I", "'", "m", " ", "D", "i", "s", "h", "a">>
ReplyFever == <<"I", "'", "m", " ", "s", "o", "r", "r", "y", " ", "t", "o", " ", "h", "e", "a", "r", " ", "y", "o", "u", " ", "h", "a", "v", "e", " ", "a", " ", "f", "e", "v", "e", "r", ".">>
ReplyHeadache == <<"H", "e", "a", "d", "a", "c", "h", "e", "s", " ", "c", "a", "n", " ", "b", "e", " ", "t", "o", "u", "g", "h", "!">>
ReplyStomach == <<"F", "o", "r", " ", "s", "t", "o", "m", "a", "c", "h", " ", "d", "i", "s", "c", "o", "m", "f", "o", "r", "t">>
ReplyGreeting == <<"H", "e", "l", "l", "o", "!", " ", "I", "'", "m", " ", "D", "i", "s", "h", "a">>
ReplyThanks == <<"Y", "o", "u", "'", "r", "e", " ", "w", "e", "l", "c", "o", "m", "e", "!">>
ReplyQuestion == <<"T", "h", "a", "t", "'", "s", " ", "a", " ", "g", "r", "e", "a", "t", " ", "q", "u", "e", "s", "t", "i", "o", "n", "!">>
FallbackReplies ==
  { <<"I", " ", "u", "n", "d", "e", "r", "s", "t", "a", "n", "d", ".">>,
    <<"T", "h", "a", "n", "k", "s", " ", "f", "o", "r", " ", "s", "h", "a", "r", "i", "n", "g", " ", "t", "h", "a", "t", " ", "w", "i", "t", "h", " ", "m", "e", ".">>,
    <<"I", " ", "s", "e", "e", ".">>,
    <<"G", "o", "t", " ", "i", "t", ".">>,
    <<"T", "h", "a", "t", "'", "s", " ", "h", "e", "l", "p", "f", "u", "l", " ", "t", "o", " ", "k", "n", "o", "w", ".">> }

\* any(word in last_message for word in words)
AnyWord(words, last_message) ==
  \E i \in DOMAIN words : Contains(last_message, words[i])

\* lines 247-280: the replies the function may choose (random.choice in the
\* last branch)
DemoReplies(messages_) ==
  IF messages_ = <<>> THEN {ReplyNoHistory}
  ELSE LET last_message == Lower(messages_[Len(messages_)].content)
       IN IF AnyWord(FeverWords, last_message) THEN {ReplyFever}
          ELSE IF AnyWord(HeadacheWords, last_message) THEN {ReplyHeadache}
          ELSE IF AnyWord(StomachWords, last_message) THEN {ReplyStomach}
          ELSE IF AnyWord(GreetingWords, last_message) THEN {ReplyGreeting}
          ELSE IF AnyWord(ThanksWords, last_message) THEN {ReplyThanks}
          ELSE IF Contains(last_message, <<"?">>) THEN {ReplyQuestion}
          ELSE FallbackReplies

\* a successful return of generate_response, and an exception leaving it
Reply(content, metadata) == [raised |-> "none", content |-> content, metadata |-> metadata]
NoReply(exc) == [raised |-> exc, content |-> <<>>, metadata |-> <<>>]

\* LLMService._generate_demo_response
generate_demo_response(messages_, metadata) ==
  {Reply(response, metadata @@ ("tokens_used" :> (Len(response) \div 4))
                            @@ ("demo_mode" :> TRUE)) :
     response \in DemoReplies(messages_)}

\* a reply text of the OpenAI or Anthropic model, and the usage it reports
ProviderReply == <<"P", "l", "e", "a", "s", "e", " ", "r", "e", "s", "t", ".">>
UsageTokens == 42

\* a client call whose completion is returned without the usage
ProviderCallNoUsage(metadata) ==
  {Reply(ProviderReply, metadata), NoReply("ProviderError")}

\* the outcomes of the client call: a completion, or an error of the API
ProviderCall(metadata) ==
  {Reply(ProviderReply, metadata @@ ("tokens_used" :> UsageTokens)),
   NoReply("ProviderError")}

\* LLMService.generate_response: the outcomes it can have
generate_response(provider_, messages_, system_prompt) ==
  LET truncated == truncate_context(messages_, system_prompt, <<>>)
  IN IF truncated.raised # "none" THEN {NoReply(truncated.raised)}
     ELSE LET truncated_messages == truncated.value
              metadata == [provider |-> provider_, model |-> ModelOf(provider_),
                           messages_used |-> Len(truncated_messages),
                           total_messages |-> Len(messages_)]
          IN IF provider_ = "demo"
             THEN generate_demo_response(truncated_messages, metadata)
             ELSE IF provider_ \in {"openai", "anthropic"}
             THEN ProviderCall(metadata)
             ELSE {NoReply("ValueError")}

\* MessageService.create_message: the row added, created_at being the
\* server default func.now()
NewMessage(table, t, user_id, role, content, message_metadata) ==
  [id |-> Len(table) + 1, user_id |-> user_id, role |-> role,
   content |-> content, token_count |-> count_tokens(content),
   message_metadata |-> message_metadata, created_at |-> t]

\* every order in which ORDER BY created_at DESC may return rows: rows with
\* the same created_at come in any order
RECURSIVE NewestFirst(_)
NewestFirst(rows) ==
  IF rows = {} THEN {<<>>}
  ELSE LET top == {r \in rows : \A o \in rows : o.created_at <= r.created_at}
       IN UNION {{<<r>> \o rest : rest \in NewestFirst(rows \ {r})} : r \in top}

\* list(reversed(messages))
Reversed(list) == [i \in DOMAIN list |-> list[Len(list) + 1 - i]]

\* MessageService.get_recent_messages: the lists it may return
get_recent_messages(table, user_id, limit) ==
  LET rows == {table[i] : i \in {j \in DOMAIN table : table[j].user_id = user_id}}
  IN {LET recent == Reversed(LimitRows(ordered, limit))
      IN [i \in DOMAIN recent |->
            [role |-> recent[i].role, content |-> recent[i].content]] :
        ordered \in NewestFirst(rows)}

\* lines 481-483: the id of the row .first() returns, 0 for no row
FoundTyping(table, user_id) ==
  LET found == {r \in table : r.user_id = user_id}
  IN IF found = {} THEN {0} ELSE {r.id : r \in found}

\* lines 485-492: a new row is added, or the row read is updated, and the
\* Session commits
WriteTyping(table, indicator, user_id, is_typing) ==
  IF indicator = 0
  THEN table \cup {[id |-> Cardinality(table) + 1, user_id |-> user_id,
                    is_typing |-> is_typing]}
  ELSE {IF r.id = indicator THEN [r EXCEPT !.is_typing = is_typing] ELSE r :
          r \in table}

\* update_typing_status leaving the row as it is
keep_typing_status(table, user_id, is_typing) == {table}

\* TypingService.update_typing_status: the tables it may leave (.first() of
\* a query without ORDER BY)
update_typing_status(table, user_id, is_typing) ==
  {WriteTyping(table, indicator, user_id, is_typing) :
     indicator \in FoundTyping(table, user_id)}

\* TypingService.get_typing_status()["is_typing"]: the values it may return
get_typing_status(table, user_id) ==
  LET found == {r \in table : r.user_id = user_id}
  IN IF found = {} THEN {FALSE} ELSE {r.is_typing : r \in found}

(***************************************************************************)
(* The chat endpoint (send_message) and ChatService.process_message.       *)
(***************************************************************************)
\* User(username=username): every profile column is NULL
NewUser ==
  [full_name |-> None, age |-> None, gender |-> None,
   medical_conditions |-> Null, medications |-> Null, allergies |-> Null,
   onboarding_completed |-> FALSE]

\* UserService.update_user_profile (`data.medical_conditions or []`)
update_user_profile(user_, data) ==
  [user_ EXCEPT !.age = data.age, !.gender = data.gender,
                !.medical_conditions = JsonList(data.medical_conditions),
                !.medications = JsonList(data.medications),
                !.allergies = JsonList(data.allergies),
                !.onboarding_completed = TRUE]

\* the body of a request to PUT /api/users/me/onboarding
OnboardingBody ==
  [age |-> Some(30), gender |-> Some("female"),
   medical_conditions |-> <<"asthma">>, medications |-> <<>>, allergies |-> <<>>]

\* UserService.get_user_profile
get_user_profile(user_) ==
  Profile(user_.full_name, user_.age, user_.gender,
          OrEmpty(user_.medical_conditions), OrEmpty(user_.medications),
          OrEmpty(user_.allergies))

\* lines 452-454: the context added to the metadata of generate_response
TurnMetadata(metadata, protocols_, memories_, is_onboarding) ==
  metadata @@ ("protocols_used" :> [i \in DOMAIN protocols_ |-> protocols_[i].name])
           @@ ("memories_used" :> Len(memories_))
           @@ ("is_onboarding" :> is_onboarding)

\* the reply is persisted whether or not generate_response raised
SwallowFailure(out) == "generated"

\* lines 446-449: an exception of generate_response leaves process_message
PropagateFailure(out) == IF out.raised # "none" THEN "raised" ELSE "generated"

\* extraction on every turn
ExtractAlways(message_history) == TRUE

\* line 466
ShouldExtract(message_history) == Len(message_history) % ExtractEvery = 0

\* what the extraction call gives: an exception (always in demo mode, where
\* self.client is None), or a reply that json.loads rejects, parses to a
\* dictionary, or parses to a list
ExtractionCalls(provider_) ==
  IF provider_ = "demo" THEN {[reply |-> "raised", parsed |-> <<>>]}
  ELSE {[reply |-> "raised", parsed |-> <<>>],
        [reply |-> "JSONDecodeError", parsed |-> <<>>],
        [reply |-> "dict", parsed |-> <<>>]}
       \cup {[reply |-> "list", parsed |-> extracted] :
               extracted \in SeqsUpTo(ExtractedItems, 1)}

\* LLMService.extract_memories, lines 321-333: what it returns for a call
extract_memories(call) ==
  IF call.reply = "list" THEN call.parsed ELSE <<>>

\* an outcome of extract_and_store_memories: what it raises, the table
\* `memories` it leaves, whether a commit failed in the session, and the
\* extraction call made
Stored(call, table, next_id) ==
  [raised |-> "none", memories |-> table, next_id |-> next_id,
   commit_failed |-> FALSE, reply |-> call.reply, extracted |-> extract_memories(call)]
StoreFailed(exc, call, table, next_id) ==
  [raised |-> exc, memories |-> table, next_id |-> next_id,
   commit_failed |-> TRUE, reply |-> call.reply, extracted |-> extract_memories(call)]

\* extract_and_store_memories without its try/except
extract_and_store_unguarded(provider_, table, next_id, t, user_id) ==
  UNION {{Stored(call, o.memories, o.next_id) :
            o \in StoreAll(table, next_id, t, user_id, extract_memories(call))}
         \cup (IF extract_memories(call) # <<>>
               THEN {StoreFailed("OperationalError", call, table, next_id)} ELSE {})
         : call \in ExtractionCalls(provider_)}

\* MemoryService.extract_and_store_memories: the list is stored, or a commit
\* of create_memory fails (here the first one) and the exception is logged
extract_and_store_memories(provider_, table, next_id, t, user_id) ==
  UNION {{Stored(call, o.memories, o.next_id) :
            o \in StoreAll(table, next_id, t, user_id, extract_memories(call))}
         \cup (IF extract_memories(call) # <<>>
               THEN {StoreFailed("none", call, table, next_id)} ELSE {})
         : call \in ExtractionCalls(provider_)}

IdleTurn ==
  [pc |-> "idle", number |-> 0, content |-> <<>>, session |-> "active",
   is_onboarding |-> FALSE, memories |-> <<>>, protocols |-> <<>>,
   system_prompt |-> <<>>, message_history |-> <<>>,
   typing_at_generate |-> FALSE, generate_calls |-> 0,
   response |-> <<>>, metadata |-> <<>>,
   user_message |-> 0, assistant_message |-> 0,
   extraction |-> "none", extraction_reply |-> "none", extracted |-> <<>>,
   store_failed |-> FALSE, pair_returned |-> FALSE,
   error |-> "none", status |-> 0,
   context_used |-> <<>>]

\* a Session on which a commit has failed refuses every statement
\* until rollback() is called (PendingRollbackError); no rollback is called
\* in a request
SessionRefuses == turn.session = "inactive"

\* POST /api/chat, lines 145-147: the request starts with a new Session and
\* shows the typing indicator
SendMessage(content) ==
  /\ turn.pc \in {"idle", "returned", "failed"}
  /\ turn.number < MaxTurns
  /\ \E table \in update_typing_status(typing_indicators, TurnUser, TRUE) :
        typing_indicators' = table
  /\ turn' = [IdleTurn EXCEPT !.pc = "started", !.number = turn.number + 1,
                              !.content = content]
  /\ UNCHANGED <<provider, user, messages, tcVars, prVars, memVars, pVars, cVars>>

\* process_message, lines 415-420: the user message is persisted, or the
\* commit fails
PersistUserTurn(fails) ==
  /\ turn.pc = "started"
  /\ IF fails
     THEN /\ turn' = [turn EXCEPT !.pc = "raised", !.session = "inactive",
                                  !.error = "user_message"]
          /\ UNCHANGED messages
     ELSE LET row == NewMessage(messages, now, TurnUser, "user", turn.content, <<>>)
          IN /\ messages' = Append(messages, row)
             /\ turn' = [turn EXCEPT !.pc = "user_saved", !.user_message = row.id]
  /\ UNCHANGED <<provider, user, typing_indicators, tcVars, prVars, memVars, pVars, cVars>>

\* process_message, lines 423-443: onboarding flag, profile, memories,
\* protocols, system prompt and recent history; or the first query fails
BuildContext(fails) ==
  /\ turn.pc = "user_saved"
  /\ IF fails
     THEN /\ turn' = [turn EXCEPT !.pc = "raised", !.error = "query"]
          /\ UNCHANGED memories
     ELSE \E got \in get_relevant_memories(memories, now, TurnUser, DefaultLimit),
             rows \in ActiveProtocolQuery(protocols),
             message_history \in get_recent_messages(messages, TurnUser, HistoryLimit) :
             LET is_onboarding == ~user.onboarding_completed
                 user_profile == get_user_profile(user)
                 matched == match_protocols(rows, turn.content)
                 system_prompt == create_system_prompt(user_profile, got.ret,
                                                       matched, is_onboarding)
             IN /\ memories' = got.memories
                /\ turn' = [turn EXCEPT !.pc = "context",
                                        !.is_onboarding = is_onboarding,
                                        !.memories = got.ret,
                                        !.protocols = matched,
                                        !.system_prompt = system_prompt,
                                        !.message_history = message_history]
  /\ UNCHANGED <<provider, user, messages, typing_indicators, next_memory_id,
                 now, memCall, tcVars, prVars, pVars, cVars>>

\* process_message, lines 446-449: the reply is generated, or the call raises
Generate ==
  /\ turn.pc = "context"
  /\ \E out \in generate_response(provider, turn.message_history, turn.system_prompt) :
        turn' = [turn EXCEPT
                   !.pc = PropagateFailure(out),
                   !.generate_calls = turn.generate_calls + 1,
                   !.typing_at_generate =
                       (get_typing_status(typing_indicators, TurnUser) = {TRUE}),
                   !.response = out.content,
                   !.metadata = out.metadata,
                   !.error = out.raised]
  /\ UNCHANGED <<provider, user, messages, typing_indicators,
                 tcVars, prVars, memVars, pVars, cVars>>

\* process_message, lines 451-463: the assistant message is persisted with
\* its metadata, or the commit fails
PersistAssistantTurn(fails) ==
  /\ turn.pc = "generated"
  /\ LET metadata == TurnMetadata(turn.metadata, turn.protocols, turn.memories,
                                  turn.is_onboarding)
     IN IF fails
        THEN /\ turn' = [turn EXCEPT !.pc = "raised", !.session = "inactive",
                                     !.metadata = metadata,
                                     !.error = "assistant_message"]
             /\ UNCHANGED messages
        ELSE LET row == NewMessage(messages, now, TurnUser, "assistant",
                                   turn.response, metadata)
             IN /\ messages' = Append(messages, row)
                /\ turn' = [turn EXCEPT !.pc = "assistant_saved",
                                        !.metadata = metadata,
                                        !.assistant_message = row.id]
  /\ UNCHANGED <<provider, user, typing_indicators, tcVars, prVars, memVars, pVars, cVars>>

\* process_message, lines 465-472: memories are extracted and stored when
\* the history length asks for it, and the pair of messages is returned
ExtractAndReturn ==
  /\ turn.pc = "assistant_saved"
  /\ IF ShouldExtract(turn.message_history)
     THEN \E o \in extract_and_store_memories(provider, memories, next_memory_id,
                                              now, TurnUser) :
             /\ memories' = o.memories
             /\ next_memory_id' = o.next_id
             /\ turn' = [turn EXCEPT
                           !.pc = IF o.raised # "none" THEN "raised" ELSE "processed",
                           !.pair_returned = (o.raised = "none"),
                           !.extraction = "invoked",
                           !.extraction_reply = o.reply,
                           !.extracted = o.extracted,
                           !.store_failed = o.commit_failed,
                           !.session = IF o.commit_failed THEN "inactive" ELSE @,
                           !.error = o.raised]
     ELSE /\ turn' = [turn EXCEPT !.pc = "processed", !.pair_returned = TRUE]
          /\ UNCHANGED <<memories, next_memory_id>>
  /\ UNCHANGED <<provider, user, messages, typing_indicators, now, memCall,
                 tcVars, prVars, pVars, cVars>>

\* send_message, lines 156-166: the typing indicator is cleared and the
\* response is built
FinishTurn ==
  /\ turn.pc = "processed"
  /\ IF SessionRefuses
     THEN /\ turn' = [turn EXCEPT !.pc = "raised", !.error = "PendingRollbackError"]
          /\ UNCHANGED typing_indicators
     ELSE /\ \E table \in update_typing_status(typing_indicators, TurnUser, FALSE) :
                typing_indicators' = table
          /\ turn' = [turn EXCEPT
                        !.pc = "returned", !.status = 200,
                        !.context_used =
                           [protocols |-> turn.metadata["protocols_used"],
                            memories_count |-> turn.metadata["memories_used"]]]
  /\ UNCHANGED <<provider, user, messages, tcVars, prVars, memVars, pVars, cVars>>

\* send_message, lines 167-171: the handler clears the typing indicator and
\* answers 500; when the Session refuses the statement the handler itself
\* raises and the request ends with that exception
HandleError ==
  /\ turn.pc = "raised"
  /\ IF SessionRefuses
     THEN UNCHANGED typing_indicators
     ELSE \E table \in update_typing_status(typing_indicators, TurnUser, FALSE) :
             typing_indicators' = table
  /\ turn' = [turn EXCEPT !.pc = "failed", !.status = 500]
  /\ UNCHANGED <<provider, user, messages, tcVars, prVars, memVars, pVars, cVars>>

\* a conversation of n messages held before the process started: turns of
\* "Hi" answered by generate_response, one clock value apart
RECURSIVE PastMessages(_, _)
PastMessages(provider_, n) ==
  IF n = 0 THEN <<>>
  ELSE LET before == PastMessages(provider_, n - 1)
           history == [i \in DOMAIN before |->
                         [role |-> before[i].role, content |-> before[i].content]]
           out == CHOOSE o \in generate_response(provider_, history, OnboardingPrompt) :
                     o.raised = "none"
       IN IF n % 2 = 1
          THEN Append(before, NewMessage(before, n, TurnUser, "user", MsgHi, <<>>))
          ELSE Append(before, NewMessage(before, n, TurnUser, "assistant", out.content,
                                         TurnMetadata(out.metadata, <<>>, <<>>, TRUE)))

\* the rows of PastMessages dated one clock value apart, the last of them
\* at the value the clock starts with
Dated(rows) == [i \in DOMAIN rows |-> [rows[i] EXCEPT !.created_at = i - Len(rows)]]

\* memories stored before the process started, one more than a prompt lists
PastFacts ==
  {[id |-> i, user_id |-> TurnUser, category |-> PromptFacts[i].category,
    key |-> PromptFacts[i].key, value |-> PromptFacts[i].value,
    importance |-> PromptFacts[i].importance,
    last_accessed_at |-> 0 - i, created_at |-> 0 - i] :
     i \in 1..(PromptFactCap + 1)}

\* the database when the process starts: empty, or holding an onboarded user
\* with a short or a long conversation
Databases(provider_) ==
  {[user |-> NewUser, messages |-> <<>>, memories |-> {}],
   [user |-> update_user_profile(NewUser, OnboardingBody),
    messages |-> Dated(PastMessages(provider_, ExtractEvery - 1)),
    memories |-> PastFacts],
   [user |-> NewUser,
    messages |-> Dated(PastMessages(provider_, HistoryLimit)),
    memories |-> {}]}

(***************************************************************************)
(* GET /api/messages and MessageService.get_messages.                      *)
(***************************************************************************)
\* the bounds of `limit` tested by the endpoint
MinLimit == 1
TopLimit == 100

\* `if before_id:` is false for None and for 0
TruthyId(before_id) == before_id # None /\ before_id[1] # 0

\* the ids of a list of rows
Ids(rows) == [i \in DOMAIN rows |-> rows[i].id]

\* messages[:limit]
FirstRows(rows, limit) == SubSeq(rows, 1, Min(Len(rows), limit))

\* MessageService.get_messages: the responses it may build (rows of one
\* created_at come from the query in any order)
get_messages(table, user_id, limit, before_id) ==
  LET mine == {table[i] : i \in {j \in DOMAIN table : table[j].user_id = user_id}}
      rows == IF TruthyId(before_id) THEN {m \in mine : m.id < before_id[1]} ELSE mine
  IN {LET fetched == LimitRows(ordered, limit + 1)
          has_more == Len(fetched) > limit
          page == IF has_more THEN FirstRows(fetched, limit) ELSE fetched
      IN [status |-> 200, items |-> Ids(page), total |-> Cardinality(mine),
          has_more |-> has_more,
          next_cursor |-> IF page # <<>> /\ has_more
                          THEN Some(page[Len(page)].id) ELSE None] :
        ordered \in NewestFirst(rows)}

\* the response of the endpoint to a limit outside 1..100
BadLimit ==
  [status |-> 400, items |-> <<>>, total |-> 0, has_more |-> FALSE,
   next_cursor |-> None]

\* GET /api/messages
get_messages_endpoint(table, user_id, limit, before_id) ==
  IF limit < MinLimit \/ limit > TopLimit THEN {BadLimit}
  ELSE get_messages(table, user_id, limit, before_id)

\* the users who read their history, the limits and the cursors they send
PageUsers == {1, 2}
PageLimits == (0..MaxPageLimit) \cup {TopLimit, TopLimit + 1}
PageCursors == {None} \cup {Some(n) : n \in 0..(MaxStored + 1)}

NoPage ==
  [called |-> FALSE, user_id |-> 0, limit |-> 0, before_id |-> None,
   status |-> 0, items |-> <<>>, total |-> 0, has_more |-> FALSE,
   next_cursor |-> None, walk |-> FALSE, seen |-> <<>>]

\* MessageService.create_message by a user: one more row in `messages`
CreateMessage(user_id) ==
  /\ Len(messages) < MaxStored
  /\ messages' = Append(messages, NewMessage(messages, now, user_id, "user", MsgHi, <<>>))
  /\ pager' = NoPage
  /\ UNCHANGED <<provider, user, typing_indicators, turn, workers,
                 tcVars, prVars, memVars, pVars>>

\* a request to GET /api/messages.  The request belongs to a walk when it has
\* no cursor, or when it follows a request of a walk with the same user and
\* limit and passes the next_cursor of that request; `seen` collects the ids
\* the walk has returned.
GetMessages(user_id, limit, before_id) ==
  \E out \in get_messages_endpoint(messages, user_id, limit, before_id) :
     LET follows == /\ pager.walk /\ pager.has_more
                    /\ pager.user_id = user_id /\ pager.limit = limit
                    /\ before_id # None /\ before_id = pager.next_cursor
         starts == before_id = None /\ out.status = 200
     IN /\ pager' = [called |-> TRUE, user_id |-> user_id, limit |-> limit,
                     before_id |-> before_id, status |-> out.status,
                     items |-> out.items, total |-> out.total,
                     has_more |-> out.has_more, next_cursor |-> out.next_cursor,
                     walk |-> (follows \/ starts),
                     seen |-> IF follows THEN pager.seen \o out.items
                              ELSE IF starts THEN out.items ELSE <<>>]
        /\ UNCHANGED <<workers, tcVars, prVars, memVars, pVars, turnVars>>

(***************************************************************************)
(* Requests served at the same time.  Every request has a Session of its   *)
(* own (get_db), and a statement of one request may run between two        *)
(* statements of another: the query of create_memory and of                *)
(* update_typing_status is one step, the write with its commit another.    *)
(***************************************************************************)
Workers == 1..NumWorkers

IdleWorker ==
  [op |-> "none", pc |-> "idle", args |-> NoArgs, is_typing |-> FALSE,
   found |-> 0, then |-> "idle", served |-> 0]

\* no request is being served; `written` is the value of the last committed
\* update_typing_status, `posts` counts the requests to POST /api/typing
NoWorkers ==
  [proc |-> [w \in Workers |-> IdleWorker], written |-> None, posts |-> 0]

\* lines 174-184 of create_memory: the id of the row .first() returns, 0 for
\* no row
FoundMemory(table, user_id, category, key) ==
  LET found == ExistingMemories(table, user_id, category, key)
  IN IF found = {} THEN {0} ELSE {m.id : m \in found}

\* lines 186-204 of create_memory: the row read is updated (UPDATE ... WHERE
\* id), or a new row is added, and the Session commits
WriteMemory(table, next_id, t, found, args) ==
  IF found # 0
  THEN UpdateMemory(table, next_id, t, CHOOSE m \in table : m.id = found,
                    args.value, args.importance)
  ELSE InsertMemory(table, next_id, t, args.user_id, args.category, args.key,
                    args.value, args.importance)

\* POST /api/memories on worker w: create_memory runs its query
BeginCreateMemory(w, user_id, category, key, value, importance) ==
  /\ workers.proc[w].pc = "idle"
  /\ workers.proc[w].served < MaxRequests
  /\ \E found \in FoundMemory(memories, user_id, category, key) :
        workers' = [workers EXCEPT !.proc[w] =
                      [@ EXCEPT !.op = "create_memory", !.pc = "found",
                                !.args = [user_id |-> user_id, category |-> category,
                                          key |-> key, value |-> value,
                                          importance |-> importance],
                                !.found = found]]
  /\ UNCHANGED <<pager, tcVars, prVars, memVars, pVars, turnVars>>

\* create_memory on worker w writes and commits
CommitCreateMemory(w) ==
  /\ workers.proc[w].pc = "found"
  /\ workers.proc[w].op = "create_memory"
  /\ LET o == WriteMemory(memories, next_memory_id, now, workers.proc[w].found,
                          workers.proc[w].args)
     IN /\ memories' = o.memories
        /\ next_memory_id' = o.next_id
  /\ workers' = [workers EXCEPT !.proc[w] =
                   [@ EXCEPT !.pc = "idle", !.served = @ + 1]]
  /\ UNCHANGED <<pager, now, memCall, tcVars, prVars, pVars, turnVars>>

\* update_typing_status on worker w runs its query; the request goes on at
\* `then` once the write is committed
BeginTyping(w, op, is_typing, then) ==
  \E found \in FoundTyping(typing_indicators, TurnUser) :
     workers' = [workers EXCEPT
                   !.proc[w] = [@ EXCEPT !.op = op, !.pc = "found",
                                         !.is_typing = is_typing,
                                         !.found = found, !.then = then],
                   !.posts = IF op = "update_typing" THEN @ + 1 ELSE @]

\* POST /api/typing on worker w
PostTyping(w, is_typing) ==
  /\ workers.proc[w].pc = "idle"
  /\ workers.proc[w].served < MaxRequests
  /\ BeginTyping(w, "update_typing", is_typing, "idle")
  /\ UNCHANGED <<pager, tcVars, prVars, memVars, pVars, turnVars>>

\* POST /api/chat on worker w, line 147: update_typing_status(True)
StartChat(w) ==
  /\ workers.proc[w].pc = "idle"
  /\ workers.proc[w].served < MaxRequests
  /\ BeginTyping(w, "send_message", TRUE, "generating")
  /\ UNCHANGED <<pager, tcVars, prVars, memVars, pVars, turnVars>>

\* update_typing_status on worker w writes and commits
CommitTyping(w) ==
  /\ workers.proc[w].pc = "found"
  /\ workers.proc[w].op \in {"update_typing", "send_message"}
  /\ typing_indicators' = WriteTyping(typing_indicators, workers.proc[w].found,
                                      TurnUser, workers.proc[w].is_typing)
  /\ workers' = [workers EXCEPT
                   !.proc[w] = [@ EXCEPT !.pc = workers.proc[w].then,
                                         !.served = IF workers.proc[w].then = "idle"
                                                    THEN @ + 1 ELSE @],
                   !.written = Some(workers.proc[w].is_typing)]
  /\ UNCHANGED <<pager, provider, user, messages, turn, tcVars, prVars, memVars, pVars>>

\* POST /api/chat on worker w, lines 150-157 and 167-170: process_message
\* has returned or raised, update_typing_status(False)
EndChat(w) ==
  /\ workers.proc[w].pc = "generating"
  /\ BeginTyping(w, "send_message", FALSE, "idle")
  /\ UNCHANGED <<pager, tcVars, prVars, memVars, pVars, turnVars>>

\* the database of a user who has completed `turns` turns, one at a time
PastTurns(provider_, turns) ==
  [user |-> NewUser, messages |-> Dated(PastMessages(provider_, 2 * turns)),
   memories |-> {}]

(***************************************************************************)
(* Specifications.                                                         *)
(***************************************************************************)
Init ==
  /\ tc_messages = <<>>
  /\ tcall = NoTruncateCall
  /\ protocols = <<>>
  /\ mcall = NoMatchCall
  /\ memories = {}
  /\ next_memory_id = 1
  /\ now = 0
  /\ memCall = NoMemoryCall
  /\ pcall = NoPromptCall
  /\ provider = "openai"
  /\ user = NewUser
  /\ messages = <<>>
  /\ typing_indicators = {}
  /\ turn = IdleTurn
  /\ pager = NoPage
  /\ workers = <<>>

NextTruncate ==
  \/ \E role \in Roles, content \in Contents : AppendMessage(role, content)
  \/ \E system_prompt \in SystemPrompts, max_tokens \in Budgets :
        TruncateContext(system_prompt, max_tokens)

\* calls of truncate_context made twice on the same list
NextRepeat ==
  \/ \E content \in Contents : AppendMessage("user", content)
  \/ \E system_prompt \in SystemPrompts, max_tokens \in Budgets :
        TruncateContext(system_prompt, max_tokens)
  \/ TruncateAgain

NextMatch ==
  \/ SeedDefaultProtocols
  \/ \E data \in ExtraProtocols : InsertProtocol(data)
  \/ \E user_message \in Messages : MatchProtocols(user_message)

NextMemory ==
  \/ Tick
  \/ \E target \in ApiTargets, vi \in ApiFacts :
        CreateMemory(target[1], target[2], target[3], vi[1], vi[2])
  \/ \E user_id \in ExtractUsers, extracted \in SeqsUpTo(ExtractedItems, MaxExtract) :
        ExtractAndStoreMemories(user_id, extracted)
  \/ \E user_id \in ReadUsers, limit \in Limits : GetRelevantMemories(user_id, limit)

\* the process starts with a provider, on a database of init_db.py
InitTurn ==
  /\ tc_messages = <<>>
  /\ tcall = NoTruncateCall
  /\ protocols = seed_default_protocols(<<>>)
  /\ mcall = NoMatchCall
  /\ now = 0
  /\ memCall = NoMemoryCall
  /\ pcall = NoPromptCall
  /\ provider \in Providers
  /\ \E db \in Databases(provider) :
        /\ user = db.user
        /\ messages = db.messages
        /\ memories = db.memories
        /\ next_memory_id = Cardinality(db.memories) + 1
  /\ typing_indicators = {}
  /\ turn = IdleTurn
  /\ pager = NoPage
  /\ workers = <<>>

NextTurn ==
  \/ Tick
  \/ \E content \in TurnTexts : SendMessage(content)
  \/ \E fails \in BOOLEAN : PersistUserTurn(fails)
  \/ \E fails \in BOOLEAN : BuildContext(fails)
  \/ Generate
  \/ \E fails \in BOOLEAN : PersistAssistantTurn(fails)
  \/ ExtractAndReturn
  \/ FinishTurn
  \/ HandleError

NextPrompt ==
  \E user_profile \in PromptProfiles, memories_ \in PromptMemories,
     protocols_ \in PromptProtocols, is_onboarding \in BOOLEAN :
        CreateSystemPrompt(user_profile, memories_, protocols_, is_onboarding)

NextPages ==
  \/ Tick
  \/ \E user_id \in PageUsers : CreateMessage(user_id)
  \/ \E user_id \in PageUsers, limit \in PageLimits, before_id \in PageCursors :
        GetMessages(user_id, limit, before_id)

\* the workers are up and serve no request
InitWorkers ==
  /\ tc_messages = <<>>
  /\ tcall = NoTruncateCall
  /\ protocols = <<>>
  /\ mcall = NoMatchCall
  /\ memories = {}
  /\ next_memory_id = 1
  /\ now = 0
  /\ memCall = NoMemoryCall
  /\ pcall = NoPromptCall
  /\ provider = "openai"
  /\ user = NewUser
  /\ messages = <<>>
  /\ typing_indicators = {}
  /\ turn = IdleTurn
  /\ pager = NoPage
  /\ workers = NoWorkers

\* the process starts on the database of a user with completed turns
InitCadence ==
  /\ tc_messages = <<>>
  /\ tcall = NoTruncateCall
  /\ protocols = seed_default_protocols(<<>>)
  /\ mcall = NoMatchCall
  /\ now = 0
  /\ memCall = NoMemoryCall
  /\ pcall = NoPromptCall
  /\ provider \in Providers
  /\ \E turns \in 0..MaxPastTurns :
        /\ user = PastTurns(provider, turns).user
        /\ messages = PastTurns(provider, turns).messages
        /\ memories = PastTurns(provider, turns).memories
  /\ next_memory_id = 1
  /\ typing_indicators = {}
  /\ turn = IdleTurn
  /\ pager = NoPage
  /\ workers = <<>>

\* turns "Hi" whose database statements succeed
NextCadence ==
  \/ SendMessage(MsgHi)
  \/ PersistUserTurn(FALSE)
  \/ BuildContext(FALSE)
  \/ Generate
  \/ PersistAssistantTurn(FALSE)
  \/ ExtractAndReturn
  \/ FinishTurn
  \/ HandleError

NextFacts ==
  \/ \E target \in ApiTargets, importance \in ApiImportances :
        PostMemory(target[1], target[2], target[3], "lose weight", importance)
  \/ \E user_id \in ExtractUsers, extracted \in SeqsUpTo(ReplyItems, 1) :
        ExtractAndStoreMemories(user_id, extracted)

NextUpsert ==
  \/ Tick
  \/ \E w \in Workers, target \in ApiTargets, vi \in ApiFacts :
        BeginCreateMemory(w, target[1], target[2], target[3], vi[1], vi[2])
  \/ \E w \in Workers : CommitCreateMemory(w)

NextTyping ==
  \/ \E w \in Workers, is_typing \in BOOLEAN : PostTyping(w, is_typing)
  \/ \E w \in Workers : StartChat(w)
  \/ \E w \in Workers : CommitTyping(w)
  \/ \E w \in Workers : EndChat(w)

Next ==
  \/ NextTruncate \/ NextMatch \/ NextMemory \/ NextPrompt \/ NextTurn \/ NextPages
  \/ NextUpsert \/ NextTyping \/ NextFacts \/ NextRepeat \/ NextCadence

Spec == Init /\ [][Next]_vars
SpecTruncate == Init /\ [][NextTruncate]_vars
SpecRepeat == Init /\ [][NextRepeat]_vars
SpecMatch == Init /\ [][NextMatch]_vars
SpecMemory == Init /\ [][NextMemory]_vars
SpecPrompt == Init /\ [][NextPrompt]_vars
SpecTurn == InitTurn /\ [][NextTurn]_vars
SpecPages == Init /\ [][NextPages]_vars
SpecCadence == InitCadence /\ [][NextCadence]_vars
SpecFacts == Init /\ [][NextFacts]_vars
SpecUpsert == InitWorkers /\ [][NextUpsert]_vars
SpecTyping == InitWorkers /\ [][NextTyping]_vars

(***************************************************************************)
(* Properties of truncate_context.                                         *)
(***************************************************************************)
IsSuffix(s, t) ==
  /\ Len(s) <= Len(t)
  /\ s = SubSeq(t, Len(t) - Len(s) + 1, Len(t))

\* C1: whatever the history, the instruction text and the limits, the tokens of
\* the returned messages plus the tokens of the instruction text plus the reply
\* reserve do not exceed the total budget, also when only a cut copy of the
\* most recent message is returned.  Stated for the calls that leave at least
\* one token for the history (a budget below the instruction text plus the
\* reply reserve cannot be met by any result).
C1_BudgetRespected ==
  (/\ tcall.called
   /\ tcall.raised = "none"
   /\ AvailableTokens(tcall.system_prompt, tcall.max_tokens) >= 1) =>
     TotalTokens(tcall.value) + count_tokens(tcall.system_prompt)
        + MAX_RESPONSE_TOKENS <= EffectiveMaxTokens(tcall.max_tokens)

\* C2: a non-empty history gives a non-empty result that holds the most recent
\* message, whole, or as a non-empty excerpt of its content followed by an
\* ellipsis that fits the available budget less the 100-token margin.
C2_LastTurnKept ==
  (tcall.called /\ tcall.messages # <<>>) =>
     /\ tcall.raised = "none"
     /\ tcall.value # <<>>
     /\ LET last == tcall.messages[Len(tcall.messages)]
            kept == tcall.value[Len(tcall.value)]
        IN \/ kept = last
           \/ /\ Len(tcall.value) = 1
              /\ kept.role = last.role
              /\ \E k \in 1..Len(last.content) :
                    kept.content = SubSeq(last.content, 1, k) \o Ellipsis
              /\ count_tokens(kept.content)
                    <= AvailableTokens(tcall.system_prompt, tcall.max_tokens) - 100

\* C3: the returned sequence is a contiguous suffix of the history, in the
\* history's order, or else the single last message of the history with its
\* content cut to a proper prefix followed by an ellipsis; no message is
\* skipped and none is reordered.
C3_SuffixOrTruncatedLast ==
  (tcall.called /\ tcall.raised = "none") =>
     \/ IsSuffix(tcall.value, tcall.messages)
     \/ /\ tcall.messages # <<>>
        /\ Len(tcall.value) = 1
        /\ LET last == tcall.messages[Len(tcall.messages)]
           IN /\ tcall.value[1].role = last.role
              /\ \E k \in 0..(Len(last.content) - 1) :
                    tcall.value[1].content = SubSeq(last.content, 1, k) \o Ellipsis

\* C3 witness: a call that returned two or more messages and left older ones out
C3_Witness ==
  /\ tcall.called
  /\ tcall.raised = "none"
  /\ Len(tcall.value) >= 2
  /\ Len(tcall.value) < Len(tcall.messages)

(***************************************************************************)
(* Properties of match_protocols.                                          *)
(***************************************************************************)
\* the matching rule as the specification words it
SatisfiesRule(row, message) ==
  LET lowered == Lower(message)
      Occurs(list) == \E i \in DOMAIN list : Contains(lowered, Lower(list[i]))
  IN /\ ~row.keywords.null
     /\ Occurs(row.keywords.list)
     /\ (row.trigger_phrases.null \/ row.trigger_phrases.list = <<>>
           \/ Occurs(row.trigger_phrases.list))

ResultNames == {mcall.result[i].name : i \in DOMAIN mcall.result}

\* C4: match_protocols returns at most 3 summaries, in descending priority.
C4_AtMostThreeByPriority ==
  mcall.called =>
     /\ Len(mcall.result) <= 3
     /\ \A i, j \in DOMAIN mcall.result :
           i < j => mcall.result[i].priority >= mcall.result[j].priority

\* C4 witness: more than three active protocols satisfy the rule and three of
\* differing priority are returned
C4_Witness ==
  /\ mcall.called
  /\ Len(mcall.result) = 3
  /\ mcall.result[1].priority > mcall.result[3].priority
  /\ Cardinality({i \in DOMAIN protocols :
                    protocols[i].is_active
                    /\ SatisfiesRule(protocols[i], mcall.message)}) > 3

\* C5: every protocol returned is active and satisfies the rule (a keyword
\* occurs in the message whatever the case, and when it has trigger phrases one
\* of them occurs too); an inactive protocol is never returned.
C5_ReturnedAreActiveMatches ==
  mcall.called =>
     /\ \A i \in DOMAIN mcall.result :
           \E j \in DOMAIN protocols :
              /\ protocols[j].name = mcall.result[i].name
              /\ protocols[j].priority = mcall.result[i].priority
              /\ protocols[j].is_active
              /\ SatisfiesRule(protocols[j], mcall.message)
     /\ \A j \in DOMAIN protocols :
           ~protocols[j].is_active => protocols[j].name \notin ResultNames

\* C5 witness: a protocol without trigger phrases is returned on its keyword
\* alone while an inactive protocol that satisfies the rule is left out
C5_Witness ==
  /\ mcall.called
  /\ \E i \in DOMAIN protocols :
        /\ protocols[i].name \in ResultNames
        /\ protocols[i].trigger_phrases.null
  /\ \E j \in DOMAIN protocols :
        /\ ~protocols[j].is_active
        /\ SatisfiesRule(protocols[j], mcall.message)

\* C6: with the table holding the seeded default protocols, all active, the
\* message "I have a fever and headache" returns Fever Management (priority 8)
\* before Headache (priority 6), both among at most 3 results.
C6_FeverBeforeHeadache ==
  (/\ mcall.called
   /\ mcall.message = MsgFeverHeadache
   /\ TableNames(protocols) = DefaultNames
   /\ \A i \in DOMAIN protocols : protocols[i].is_active) =>
     /\ Len(mcall.result) <= 3
     /\ \E i, j \in DOMAIN mcall.result :
           /\ i < j
           /\ mcall.result[i].name = "Fever Management"
           /\ mcall.result[i].priority = 8
           /\ mcall.result[j].name = "Headache"
           /\ mcall.result[j].priority = 6

\* the active rows that satisfy the rule, by descending priority and, among
\* equal priorities, in insertion order
RECURSIVE SeedRanked(_)
SeedRanked(ids) ==
  IF ids = {} THEN <<>>
  ELSE LET best == CHOOSE i \in ids : \A o \in ids :
                      \/ protocols[i].priority > protocols[o].priority
                      \/ /\ protocols[i].priority = protocols[o].priority
                         /\ i <= o
       IN <<protocols[best].name>> \o SeedRanked(ids \ {best})

\* C7: the result is exactly the first three matching active protocols taken in
\* descending priority with equal priorities in insertion order.
C7_FirstThreeInSeedOrder ==
  mcall.called =>
     LET ranked == SeedRanked({i \in DOMAIN protocols :
                                 protocols[i].is_active
                                 /\ SatisfiesRule(protocols[i], mcall.message)})
     IN [i \in DOMAIN mcall.result |-> mcall.result[i].name]
          = SubSeq(ranked, 1, Min(3, Len(ranked)))

(***************************************************************************)
(* Properties of create_memory.                                            *)
(***************************************************************************)
SameKey(m, o) ==
  m.user_id = o.user_id /\ m.category = o.category /\ m.key = o.key

\* C8: after any sequence of create_memory calls made one at a time, by the
\* memories API or by memory extraction, at most one Fact exists for every
\* (userId, category, key).
C8_AtMostOneFactPerKey ==
  \A m, o \in memories : SameKey(m, o) => m = o

\* C8 witness: extraction has written a key that was written before, next to
\* another Fact
C8_Witness ==
  /\ memCall.op = "extract_and_store_memories"
  /\ Cardinality(memories) >= 2
  /\ \E m \in memories :
        /\ m.user_id = memCall.args.user_id
        /\ m.category = "general" /\ m.key = "info" /\ m.importance = 1
        /\ m.created_at < m.last_accessed_at

\* C9: a create_memory call that repeats the call before it, with the same
\* (userId, category, key, value, importance), leaves exactly one Fact for the
\* key, with the id, value and importance it had after the first call.
C9_Idempotent ==
  [][(/\ memCall.op = "create_memory"
      /\ memCall'.op = "create_memory"
      /\ memCall'.args = memCall.args) =>
        LET a == memCall.args
            before == ExistingMemories(memories, a.user_id, a.category, a.key)
            after == ExistingMemories(memories', a.user_id, a.category, a.key)
            Core(m) == <<m.id, m.value, m.importance>>
        IN /\ Cardinality(after) = 1
           /\ {Core(m) : m \in after} = {Core(m) : m \in before}
           /\ memCall'.ret.id = memCall.ret.id
           /\ Cardinality(memories') = Cardinality(memories)]_vars

\* C9 witness: the same call has been made twice, the second time later
C9_Witness ==
  /\ memCall.op = "create_memory"
  /\ memCall.repeat
  /\ memCall.ret.created_at < memCall.ret.last_accessed_at

\* C10: create_memory on a key that has a Fact overwrites its value and
\* importance, sets its lastAccessedAt to the current time, returns that Fact
\* and creates none; on a key without a Fact it creates exactly one.
C10_UpsertOverwritesOrCreates ==
  [][(/\ memCall'.op = "create_memory"
      /\ (memCall' # memCall \/ memories' # memories)) =>
        LET a == memCall'.args
            found == ExistingMemories(memories, a.user_id, a.category, a.key)
        IN IF found # {}
           THEN \E e \in found :
                   LET updated == [e EXCEPT !.value = a.value,
                                            !.importance = a.importance,
                                            !.last_accessed_at = now]
                   IN /\ memories' = (memories \ {e}) \cup {updated}
                      /\ memCall'.ret = updated
                      /\ Cardinality(memories') = Cardinality(memories)
           ELSE /\ Cardinality(memories') = Cardinality(memories) + 1
                /\ memories \subseteq memories'
                /\ memories' \ memories = {memCall'.ret}
                /\ memCall'.ret.user_id = a.user_id
                /\ memCall'.ret.category = a.category
                /\ memCall'.ret.key = a.key
                /\ memCall'.ret.value = a.value
                /\ memCall'.ret.importance = a.importance]_vars

\* C10 witness: upsert(u, health_goal, primary_goal, ..) has overwritten the
\* user's only Fact, which now reads "lose 5kg" with importance 4
C10_Witness ==
  /\ memCall.op = "create_memory"
  /\ memCall.args.category = "health_goal"
  /\ memCall.args.key = "primary_goal"
  /\ memories = {memCall.ret}
  /\ memCall.ret.value = "lose 5kg"
  /\ memCall.ret.importance = 4
  /\ memCall.ret.created_at < memCall.ret.last_accessed_at

(***************************************************************************)
(* Properties of MemoryService.get_relevant_memories.                      *)
(***************************************************************************)
\* a step of get_relevant_memories: the only action that leaves this record
\* and does not move the clock
IsGetStep == memCall'.op = "get_relevant_memories" /\ now' = now

RanksAbove(a, b) ==
  \/ a.importance > b.importance
  \/ /\ a.importance = b.importance
     /\ a.last_accessed_at > b.last_accessed_at

\* C11: get_relevant_memories(userId, n) returns at most n Facts, all of
\* userId, ordered by importance descending and then by lastAccessedAt, as it
\* was before the call, descending; no Fact of the user that ranks above a
\* returned Fact is left out.
C11_TopFactsRanked ==
  [][IsGetStep =>
       LET sel == memCall'.selected
           mine == {m \in memories : m.user_id = memCall'.args.user_id}
           got == {sel[i] : i \in DOMAIN sel}
       IN /\ Len(sel) <= memCall'.limit
          /\ got \subseteq mine
          /\ Cardinality(got) = Len(sel)
          /\ \A i, j \in DOMAIN sel : i < j => ~RanksAbove(sel[j], sel[i])
          /\ \A m \in mine \ got : \A r \in got : ~RanksAbove(m, r)]_vars

\* C11 witness: a call with n = 1 for a user with two Facts of the same
\* importance has returned the one accessed later and left the other out
C11_Witness ==
  /\ memCall.op = "get_relevant_memories"
  /\ memCall.limit = 1
  /\ Len(memCall.selected) = 1
  /\ \E m \in memories :
        /\ m.user_id = memCall.args.user_id
        /\ m.id # memCall.selected[1].id
        /\ m.importance = memCall.selected[1].importance
        /\ m.last_accessed_at < memCall.selected[1].last_accessed_at

\* C12: get_relevant_memories sets lastAccessedAt to the current time on every
\* Fact it returns and changes nothing else: Facts not returned keep their
\* lastAccessedAt, no Fact's value, importance, key, category or identity
\* changes, and no Fact is created or deleted.
C12_OnlyReturnedTouched ==
  [][IsGetStep =>
       LET sel == memCall'.selected
           ids == {sel[i].id : i \in DOMAIN sel}
           Rest(m) == <<m.id, m.user_id, m.category, m.key, m.value,
                        m.importance, m.created_at>>
       IN /\ {Rest(m) : m \in memories'} = {Rest(m) : m \in memories}
          /\ Cardinality(memories') = Cardinality(memories)
          /\ next_memory_id' = next_memory_id
          /\ \A m \in memories' :
                IF m.id \in ids
                THEN m.last_accessed_at = now
                ELSE \E o \in memories :
                        o.id = m.id /\ o.last_accessed_at = m.last_accessed_at]_vars

\* C12 witness: a call has returned a Fact last accessed earlier, which now
\* carries the current time, while a Fact it did not return keeps an earlier
\* lastAccessedAt
C12_Witness ==
  /\ memCall.op = "get_relevant_memories"
  /\ \E i \in DOMAIN memCall.selected :
        /\ memCall.selected[i].last_accessed_at < now
        /\ \E m \in memories :
              m.id = memCall.selected[i].id /\ m.last_accessed_at = now
  /\ \E m \in memories :
        /\ \A i \in DOMAIN memCall.selected : memCall.selected[i].id # m.id
        /\ m.last_accessed_at < now

(***************************************************************************)
(* Properties of LLMService.create_system_prompt.                          *)
(***************************************************************************)
\* where a piece stands in a text: its first position, 0 when it is not there
PositionOf(text, piece) ==
  IF \E i \in DOMAIN text : text[i] = piece
  THEN CHOOSE i \in DOMAIN text :
          text[i] = piece /\ \A j \in 1..(i - 1) : text[j] # piece
  ELSE 0

\* C20: with onboarding false the text is composed in the order persona
\* preamble, profile block, relevant-context block, relevant-protocols block,
\* guidelines footer; the profile block lists exactly the profile fields that
\* are present (a field with a value is never omitted, an absent field never
\* listed); the context block lists at most 5 facts and the protocols block
\* at most 3 protocols, whatever the lengths of the lists passed in.
C20_BlocksInOrder ==
  (pcall.called /\ ~pcall.is_onboarding) =>
     LET text == pcall.value
         profile == pcall.user_profile
         P == PositionOf(text, "\n\nUser Profile:")
         M == PositionOf(text, "\n\nRelevant Context from Past Conversations:")
         R == PositionOf(text, "\n\nRelevant Medical Protocols:")
         G == PositionOf(text, "\n\nImportant Guidelines:")
         EndOfProfile == IF M > 0 THEN M ELSE IF R > 0 THEN R ELSE G
         EndOfContext == IF R > 0 THEN R ELSE G
         Listed(label) == \E i \in DOMAIN text : P < i /\ i < EndOfProfile /\ text[i] = label
         HasValue(field) == field \in DOMAIN profile /\ profile[field] # None
         HasItems(field) == field \in DOMAIN profile /\ profile[field] # Some(<<>>)
         facts == {i \in DOMAIN text : text[i] = "- "}
         names == {i \in DOMAIN text : text[i] = ":"}
     IN /\ text[1] = PersonaParts[1][1]
        /\ G > 1
        /\ text[Len(text)] = GuidelineParts[Len(GuidelineParts)][1]
        /\ P > 0 => (1 < P /\ P < G)
        /\ M > 0 => (P < M /\ M < G)
        /\ R > 0 => (P < R /\ M < R /\ R < G)
        /\ (P > 0) = (DOMAIN profile # {})
        /\ (M > 0) = (pcall.memories # <<>>)
        /\ (R > 0) = (pcall.protocols # <<>>)
        /\ Listed("- Name: ") = HasValue("full_name")
        /\ Listed("- Age: ") = HasValue("age")
        /\ Listed("- Gender: ") = HasValue("gender")
        /\ Listed("- Medical Conditions: ") = HasItems("medical_conditions")
        /\ Listed("- Medications: ") = HasItems("medications")
        /\ Listed("- Allergies: ") = HasItems("allergies")
        /\ Cardinality(facts) <= 5
        /\ \A i \in facts : M < i /\ i < EndOfContext
        /\ Cardinality(names) <= 3
        /\ \A i \in names : R < i /\ i < G

(***************************************************************************)
(* Properties of the chat endpoint and of process_message.                 *)
(***************************************************************************)
\* the request has left send_message
Exited == turn.pc \in {"returned", "failed"}

\* the typing indicator read for the user
TypingShown == get_typing_status(typing_indicators, TurnUser)

\* the rows persisted by the request
UserRow == messages[turn.user_message]
AssistantRow == messages[turn.assistant_message]

\* C13: on every turn the typing indicator is true before generation begins,
\* and it is false when the call returns, on every exit path: normal return,
\* generation failure, and any other failure raised inside process_message,
\* a failed persistence step included.
C13_TypingClearedOnExit ==
  /\ turn.generate_calls > 0 => turn.typing_at_generate
  /\ Exited => TypingShown = {FALSE}

\* C14: when the generation call fails the failure leaves process_message
\* and the endpoint answers with an error, generation is called once and not
\* again, and no assistant Turn is persisted for the turn.
C14_GenerationFailurePropagates ==
  (turn.generate_calls > 0 /\ turn.error = "ProviderError") =>
     /\ turn.pc \in {"raised", "failed"}
     /\ turn.pc = "failed" => turn.status = 500
     /\ ~turn.pair_returned
     /\ turn.generate_calls = 1
     /\ turn.assistant_message = 0
     /\ Len(messages) = turn.user_message
     /\ messages[Len(messages)].role = "user"

\* C14 witness: a turn whose generation call failed has ended with an error
C14_Witness ==
  /\ turn.pc = "failed"
  /\ turn.error = "ProviderError"
  /\ turn.user_message # 0
  /\ provider = "openai"

\* C15: memory extraction is invoked on a turn exactly when the length of the
\* window read for the turn (at most 20 Turns, the user Turn just persisted
\* among them) is a multiple of 5, and only after the assistant Turn has been
\* persisted.
C15_ExtractionEveryFifthLength ==
  /\ turn.pc \in {"context", "generated", "assistant_saved", "processed", "returned"} =>
       /\ Len(turn.message_history) = Min(20, turn.user_message)
       /\ \E i \in DOMAIN turn.message_history :
             turn.message_history[i] = [role |-> "user", content |-> turn.content]
  /\ (turn.pc \in {"processed", "returned"} \/ turn.error = "PendingRollbackError") =>
       ((turn.extraction = "invoked") = (Len(turn.message_history) % 5 = 0))
  /\ turn.extraction = "invoked" =>
       /\ turn.assistant_message > turn.user_message
       /\ turn.assistant_message \in DOMAIN messages
       /\ AssistantRow.role = "assistant"

\* C15 witness: a turn on a history longer than the window has read 20 Turns
\* and extraction has been invoked
C15_Witness ==
  /\ turn.pc = "returned"
  /\ turn.extraction = "invoked"
  /\ Len(turn.message_history) = 20
  /\ turn.user_message > 20

\* C16: a failure of memory extraction is never surfaced to the caller of the
\* turn: the extraction returns an empty sequence when the reply is not
\* parseable as a list or when the extraction call raises, and an error while
\* storing an extracted fact does not keep process_message from returning the
\* pair of persisted Turns.
C16_ExtractionFailuresSwallowed ==
  turn.extraction = "invoked" =>
     /\ turn.extraction_reply \in {"raised", "JSONDecodeError", "dict"} =>
           turn.extracted = <<>>
     /\ turn.pair_returned
     /\ turn.pc = "processed" => turn.error = "none"
     /\ UserRow.role = "user" /\ UserRow.content = turn.content
     /\ AssistantRow.role = "assistant" /\ AssistantRow.content = turn.response

\* C16 witness: storing an extracted fact has failed and process_message has
\* returned the pair
C16_Witness ==
  /\ turn.extraction = "invoked"
  /\ turn.store_failed
  /\ turn.extracted # <<>>
  /\ turn.pair_returned

\* the keys every assistant Turn's metadata holds
MetadataKeys ==
  {"provider", "model", "messages_used", "total_messages", "tokens_used",
   "protocols_used", "memories_used", "is_onboarding"}

\* C17: every persisted assistant Turn carries metadata with the provider and
\* model identifiers, the count of messages used after truncation and the
\* total count of messages, the tokens used, the names of the protocols
\* applied, the count of facts used and the onboarding flag of its turn, for
\* OpenAI, Anthropic and demo.
C17_AssistantMetadataComplete ==
  /\ \A i \in DOMAIN messages :
        messages[i].role = "assistant" =>
           /\ MetadataKeys \subseteq DOMAIN messages[i].message_metadata
           /\ messages[i].message_metadata["provider"] \in Providers
  /\ turn.assistant_message # 0 =>
        LET metadata == AssistantRow.message_metadata
        IN /\ metadata["provider"] = provider
           /\ metadata["model"] = ModelOf(provider)
           /\ metadata["total_messages"] = Len(turn.message_history)
           /\ metadata["messages_used"] <= metadata["total_messages"]
           /\ metadata["tokens_used"] \in Nat
           /\ metadata["protocols_used"] =
                 [i \in DOMAIN turn.protocols |-> turn.protocols[i].name]
           /\ metadata["memories_used"] = Len(turn.memories)
           /\ metadata["is_onboarding"] = ~user.onboarding_completed

\* C17 witness: an Anthropic turn that applied a protocol has persisted its
\* assistant Turn
C17_Witness ==
  /\ provider = "anthropic"
  /\ turn.assistant_message # 0
  /\ AssistantRow.message_metadata["protocols_used"] # <<>>

\* the number of Facts the instruction text lists: one "- key: value" line each
FactsListed(system_prompt) ==
  Cardinality({i \in DOMAIN system_prompt : system_prompt[i] = "- "})

\* C18: on each turn at most 5 Facts are retrieved and touched, and the count
\* of facts recorded in the assistant Turn's metadata and in the context-usage
\* summary equals the number of Facts listed in the instruction text, never
\* more than 5.
C18_AtMostFiveFacts ==
  /\ Len(turn.memories) <= 5
  /\ turn.assistant_message # 0 =>
        /\ AssistantRow.message_metadata["memories_used"] = FactsListed(turn.system_prompt)
        /\ AssistantRow.message_metadata["memories_used"] <= 5
  /\ turn.pc = "returned" =>
        turn.context_used.memories_count = FactsListed(turn.system_prompt)

\* the demo reply the branches give for a text, in the order fever, headache,
\* stomach, greeting, thanks, question, fallback
ExpectedDemoReplies(content) ==
  LET text == Lower(content)
      Has(words) == \E i \in DOMAIN words : Contains(text, words[i])
  IN CASE Has(FeverWords) -> {ReplyFever}
       [] ~Has(FeverWords) /\ Has(HeadacheWords) -> {ReplyHeadache}
       [] ~Has(FeverWords) /\ ~Has(HeadacheWords) /\ Has(StomachWords) -> {ReplyStomach}
       [] ~Has(FeverWords \o HeadacheWords \o StomachWords) /\ Has(GreetingWords) ->
            {ReplyGreeting}
       [] ~Has(FeverWords \o HeadacheWords \o StomachWords \o GreetingWords)
            /\ Has(ThanksWords) -> {ReplyThanks}
       [] ~Has(FeverWords \o HeadacheWords \o StomachWords \o GreetingWords \o ThanksWords)
            /\ Contains(text, <<"?">>) -> {ReplyQuestion}
       [] OTHER -> FallbackReplies

\* C19: in demo mode a turn "Hi" of a user without history gets the greeting
\* reply and metadata marking demo mode; in general the demo reply of a turn
\* is decided by the content of the user Turn just persisted, by the first
\* matching branch in the order fever, headache, stomach, greeting, thanks,
\* question, fallback.
C19_DemoReplyFromUserTurn ==
  (provider = "demo" /\ turn.generate_calls > 0 /\ turn.error = "none") =>
     /\ turn.metadata["demo_mode"] = TRUE
     /\ (turn.content = MsgHi /\ turn.user_message = 1) => turn.response = ReplyGreeting
     /\ turn.response \in ExpectedDemoReplies(UserRow.content)

(***************************************************************************)
(* Properties of the walk of truncate_context and of its input.            *)
(***************************************************************************)
\* the budget of the last call
CallAvailable == AvailableTokens(tcall.system_prompt, tcall.max_tokens)

\* how many turns of the history the last call returned as they were
KeptTurns == IF IsSuffix(tcall.value, tcall.messages) THEN Len(tcall.value) ELSE 0

\* the last n turns of the history of the last call
NewestTurns(n) ==
  SubSeq(tcall.messages, Len(tcall.messages) - n + 1, Len(tcall.messages))

\* C22: truncate_context returns the longest suffix that fits: turns are
\* admitted from the newest while the running total stays within
\* available = maxTotalTokens - tokens(instruction) - maxReplyTokens, and the
\* walk stops at the first turn that would overflow; a history whose total is
\* within available is returned whole and unchanged, and whenever a turn is
\* excluded, adding the newest excluded turn would exceed available.
C22_LongestFittingSuffix ==
  (tcall.called /\ tcall.raised = "none") =>
     /\ TotalTokens(tcall.messages) <= CallAvailable => tcall.value = tcall.messages
     /\ KeptTurns > 0 =>
          /\ tcall.value = NewestTurns(KeptTurns)
          /\ TotalTokens(tcall.value) <= CallAvailable
     /\ KeptTurns < Len(tcall.messages) =>
          TotalTokens(NewestTurns(KeptTurns + 1)) > CallAvailable
     /\ \A n \in 0..Len(tcall.messages) :
          TotalTokens(NewestTurns(n)) <= CallAvailable => n <= KeptTurns

\* C22 witness: a call has kept the newest turn and excluded an older one
C22_Witness ==
  /\ tcall.called
  /\ tcall.raised = "none"
  /\ KeptTurns > 0
  /\ KeptTurns < Len(tcall.messages)

WindowRead ==
  turn.pc \in {"context", "generated", "assistant_saved", "processed", "returned"}

\* the Turns of the user stored when the window was read
StoredAtRead ==
  {messages[i] : i \in {j \in DOMAIN messages :
                          j <= turn.user_message /\ messages[j].user_id = TurnUser}}

\* the place of a Turn by createdAt, ties broken by id
PlaceOf(row) ==
  1 + Cardinality({o \in StoredAtRead :
                     \/ o.created_at < row.created_at
                     \/ o.created_at = row.created_at /\ o.id < row.id})

\* the most recent Turns (at most 20) in that order
ChronologicalWindow ==
  LET n == Cardinality(StoredAtRead)
      k == Min(20, n)
  IN [i \in 1..k |->
        LET row == CHOOSE r \in StoredAtRead : PlaceOf(r) = n - k + i
        IN [role |-> row.role, content |-> row.content]]

\* C25: the window passed to generation is the user's most recent Turns (at
\* most 20) in chronological order by createdAt with ties broken by id, so
\* its last element is the user Turn persisted at the start of the turn,
\* also when two Turns share a createdAt value.
C25_WindowChronological ==
  WindowRead =>
     /\ turn.message_history = ChronologicalWindow
     /\ turn.message_history[Len(turn.message_history)] =
           [role |-> "user", content |-> UserRow.content]

\* every turn of the user up to the current one has stored its user Turn and
\* its assistant Turn
AllSucceeded ==
  /\ turn.user_message % 2 = 1
  /\ \A i \in 1..(turn.user_message - 1) :
        /\ messages[i].user_id = TurnUser
        /\ messages[i].role = IF i % 2 = 1 THEN "user" ELSE "assistant"

\* the number of the current turn among the turns of the user
TurnNumber == (turn.user_message + 1) \div 2

C26_ImportanceInRange ==
  \A m \in memories : m.importance \in MinImportance..MaxImportance

(***************************************************************************)
(* Properties of requests served at the same time.                         *)
(***************************************************************************)
\* the upserts that have committed or are between query and write
UpsertsMade ==
  {w \in Workers : workers.proc[w].op = "create_memory"
                   /\ (workers.proc[w].served > 0 \/ workers.proc[w].pc = "found")}

\* C24: under every interleaving of two concurrent upserts for the same
\* (userId, category, key) no two Facts with that key coexist and no write
\* is lost: every committed upsert has left a Fact with its key.
C24_AtomicUpsert ==
  /\ \A target \in ApiTargets :
        Cardinality(ExistingMemories(memories, target[1], target[2], target[3])) <= 1
  /\ \A w \in Workers :
        (workers.proc[w].op = "create_memory" /\ workers.proc[w].pc = "idle") =>
           ExistingMemories(memories, workers.proc[w].args.user_id,
                            workers.proc[w].args.category,
                            workers.proc[w].args.key) # {}

\* the TypingState rows of the user
TypingRows == {r \in typing_indicators : r.user_id = TurnUser}

\* C27: the user has at most one TypingState row after any interleaving of
\* update_typing_status calls, and get_typing_status returns the value of
\* the most recent committed update, or false when none has been made.
C27_OneRowLastWriterWins ==
  /\ Cardinality(TypingRows) <= 1
  /\ TypingShown = IF workers.written = None THEN {FALSE}
                   ELSE {workers.written[1]}

\* the turns between setting the indicator and exiting
ChatsInFlight == {w \in Workers : workers.proc[w].pc = "generating"}

\* the workers serving no request
IdleWorkers == {w \in Workers : workers.proc[w].pc = "idle"}

\* C28: when turns of the user run at the same time (and nothing else writes
\* the indicator), the indicator reads true while at least one of them is
\* between setting it and exiting, and false once all of them have exited.
C28_TypingWhileAnyTurnRuns ==
  workers.posts = 0 =>
     /\ ChatsInFlight # {} => TypingShown = {TRUE}
     /\ (IdleWorkers = Workers /\ workers.written # None) => TypingShown = {FALSE}

(***************************************************************************)
(* Properties of get_messages.                                             *)
(***************************************************************************)
\* the ids of the Turns of the user of the last request
PagerUserIds == {messages[i].id : i \in {j \in DOMAIN messages : messages[j].user_id = pager.user_id}}

\* the ids the cursor of the last request admits
PagerAdmitted ==
  IF pager.before_id = None THEN PagerUserIds
  ELSE {id \in PagerUserIds : id < pager.before_id[1]}

PagerItems == {pager.items[i] : i \in DOMAIN pager.items}

\* C21: get_messages returns at most limit Turns of the user, all with id
\* below beforeId when it is given, ordered by id descending; hasMore is true
\* exactly when older Turns of the user remain beyond the returned ones;
\* nextCursor is the smallest returned id when hasMore is true and absent
\* otherwise; total is the count of all the user's Turns.
C21_PageOfTurns ==
  (pager.called /\ pager.status = 200) =>
     /\ Len(pager.items) <= pager.limit
     /\ PagerItems \subseteq PagerAdmitted
     /\ \A i, j \in DOMAIN pager.items : i < j => pager.items[i] > pager.items[j]
     /\ pager.has_more = (\E id \in PagerAdmitted : \A item \in PagerItems : id < item)
     /\ pager.next_cursor =
          IF pager.has_more
          THEN Some(CHOOSE item \in PagerItems : \A other \in PagerItems : item <= other)
          ELSE None
     /\ pager.total = Cardinality(PagerUserIds)

\* C30: a walk that starts without a cursor and passes each nextCursor as
\* beforeId until hasMore is false has returned every Turn of the user
\* exactly once, also when Turns share a createdAt value.
C30_WalkReturnsEveryTurnOnce ==
  (pager.walk /\ ~pager.has_more) =>
     /\ Len(pager.seen) = Cardinality(PagerUserIds)
     /\ {pager.seen[i] : i \in DOMAIN pager.seen} = PagerUserIds

====
